---- MODULE Spec2Model ----
(***************************************************************************)
(* A model of the fin personal-finance core: the record store (accounts,   *)
(* categories, transactions, imports), the two statement importers and the *)
(* categorization services of fin/service.py.                              *)
(*                                                                         *)
(* Text is modelled as a sequence of one-character strings, so that        *)
(* stripping, splitting, lower-casing and integer parsing are computed     *)
(* character by character as the Python code computes them.                *)
(***************************************************************************)
EXTENDS Integers, Sequences, FiniteSets, TLC

VARIABLES accounts, categories, transactions, imports, last, running

vars == <<accounts, categories, transactions, imports, last, running>>

(***************************************************************************)
(* Bounds of the model.                                                    *)
(***************************************************************************)
MaxValidRows == 2
MaxImports == 1
MaxCategoryId == 2
MaxIdList == 2
MaxManual == 1
MaxCents == 30
MaxRunning == 2

(***************************************************************************)
(* Python values.                                                          *)
(***************************************************************************)
\* None in an integer column (category_id, import_id, account_id).
NULL == -1

\* None where a text value is expected (csv.DictReader's restval).
Missing == <<"<None>">>

\* Python truthiness of an optional integer: None and 0 are falsy.
Truthy(x) == x # NULL /\ x # 0

(***************************************************************************)
(* Text helpers (str methods).                                             *)
(***************************************************************************)
Digits == {"0", "1", "2", "3", "4", "5", "6", "7", "8", "9"}

Whitespace == {" "}

DigitVal(ch) ==
    CASE ch = "0" -> 0 [] ch = "1" -> 1 [] ch = "2" -> 2 [] ch = "3" -> 3
      [] ch = "4" -> 4 [] ch = "5" -> 5 [] ch = "6" -> 6 [] ch = "7" -> 7
      [] ch = "8" -> 8 [] ch = "9" -> 9

\* str.lower() on one character (ASCII letters).
LowerChar(ch) ==
    CASE ch = "A" -> "a" [] ch = "B" -> "b" [] ch = "C" -> "c" [] ch = "D" -> "d"
      [] ch = "E" -> "e" [] ch = "F" -> "f" [] ch = "G" -> "g" [] ch = "H" -> "h"
      [] ch = "I" -> "i" [] ch = "J" -> "j" [] ch = "K" -> "k" [] ch = "L" -> "l"
      [] ch = "M" -> "m" [] ch = "N" -> "n" [] ch = "O" -> "o" [] ch = "P" -> "p"
      [] ch = "Q" -> "q" [] ch = "R" -> "r" [] ch = "S" -> "s" [] ch = "T" -> "t"
      [] ch = "U" -> "u" [] ch = "V" -> "v" [] ch = "W" -> "w" [] ch = "X" -> "x"
      [] ch = "Y" -> "y" [] ch = "Z" -> "z"
      [] OTHER -> ch

Lower(s) == [i \in 1..Len(s) |-> LowerChar(s[i])]

\* s.replace(ch, '')
Remove(s, ch) == SelectSeq(s, LAMBDA c : c # ch)

RECURSIVE LStrip(_)
LStrip(s) == IF s # <<>> /\ Head(s) \in Whitespace THEN LStrip(Tail(s)) ELSE s

RECURSIVE RStrip(_)
RStrip(s) ==
    IF s # <<>> /\ s[Len(s)] \in Whitespace
    THEN RStrip(SubSeq(s, 1, Len(s) - 1))
    ELSE s

\* s.strip()
Strip(s) == RStrip(LStrip(s))

\* s.startswith(p)
StartsWith(s, p) == Len(p) <= Len(s) /\ SubSeq(s, 1, Len(p)) = p

\* p in s
Contains(s, p) ==
    \E i \in 0..(Len(s) - Len(p)) : SubSeq(s, i + 1, i + Len(p)) = p

\* s[:n]
Prefix(s, n) == SubSeq(s, 1, IF n < Len(s) THEN n ELSE Len(s))

\* s.split(sep): the pieces between the non-overlapping occurrences of sep,
\* scanned from the left.
RECURSIVE SplitFrom(_, _, _)
SplitFrom(s, sep, acc) ==
    IF s = <<>> THEN <<acc>>
    ELSE IF StartsWith(s, sep)
         THEN <<acc>> \o SplitFrom(SubSeq(s, Len(sep) + 1, Len(s)), sep, <<>>)
         ELSE SplitFrom(Tail(s), sep, Append(acc, Head(s)))

Split(s, sep) == SplitFrom(s, sep, <<>>)

\* sep.join(parts)
RECURSIVE Join(_, _)
Join(parts, sep) ==
    IF parts = <<>> THEN <<>>
    ELSE IF Len(parts) = 1 THEN parts[1]
         ELSE parts[1] \o sep \o Join(Tail(parts), sep)

IsDigits(s) == s # <<>> /\ \A i \in 1..Len(s) : s[i] \in Digits

RECURSIVE DigitsToInt(_)
DigitsToInt(s) ==
    IF s = <<>> THEN 0
    ELSE 10 * DigitsToInt(SubSeq(s, 1, Len(s) - 1)) + DigitVal(s[Len(s)])

\* int(s) accepts surrounding whitespace and one leading sign.
IntBody(s) ==
    IF Strip(s) # <<>> /\ Head(Strip(s)) \in {"-", "+"}
    THEN Tail(Strip(s))
    ELSE Strip(s)

IsIntLiteral(s) == IsDigits(IntBody(s))

IntOf(s) ==
    IF Head(Strip(s)) = "-"
    THEN 0 - DigitsToInt(IntBody(s))
    ELSE DigitsToInt(IntBody(s))

(***************************************************************************)
(* The record store (fin/models.py, fin/repositories/*.py).  Every         *)
(* repository write commits at once, so the store after a call is the      *)
(* store any later reader sees.  SQLite gives a new row the id max(id)+1.  *)
(***************************************************************************)
SetMax(S) == CHOOSE m \in S : \A x \in S : x <= m

NextId(ids) == IF ids = {} THEN 1 ELSE SetMax(ids) + 1

Ids(rows) == {r.id : r \in rows}

\* A lookup that compares names without regard to case.
CategoryGetByName_IgnoreCase(cats, name) ==
    {c \in cats : Lower(c.name) = Lower(name)}

\* CategoryRepository.get_by_name: the rows with that name (none or one).
CategoryGetByName(cats, name) == {c \in cats : c.name = name}

CategoryGetById(cats, id) == {c \in cats : c.id = id}

\* A create that inserts without looking the name up.
CategoryCreate_AlwaysInsert(cats, name) ==
    cats \cup {[id |-> NextId(Ids(cats)), name |-> name]}

\* CategoryRepository.create: create-or-find by name.
CategoryCreate(cats, name) ==
    IF CategoryGetByName(cats, name) # {}
    THEN cats
    ELSE cats \cup {[id |-> NextId(Ids(cats)), name |-> name]}

AccountGetByName(accts, name) == {a \in accts : a.name = name}

\* AccountRepository.create: create-or-find by name; the kind of an
\* existing row is kept.
AccountCreate(accts, name, kind) ==
    IF AccountGetByName(accts, name) # {}
    THEN accts
    ELSE accts \cup {[id |-> NextId(Ids(accts)), name |-> name, kind |-> kind]}

\* A lookup that passes over the first row of the table.
ImportGetBySha256_SkipFirst(imps, sha) ==
    {i \in 2..Len(imps) : imps[i].sha256 = sha}

\* ImportRepository.get_by_sha256
ImportGetBySha256(imps, sha) ==
    {i \in 1..Len(imps) : imps[i].sha256 = sha}

\* The error formatted from the registered Import instead.
DuplicateImportError_Registered(file_name, sha, existing) ==
    [type |-> "ValueError", kind |-> "ImportAlreadyExists",
     file_name |-> existing.file_name, sha256 |-> existing.sha256,
     category |-> <<>>]

\* The ValueError ImportRepository.create raises for a registered hash: it
\* is formatted from the Import being created.
DuplicateImportError(file_name, sha, existing) ==
    [type |-> "ValueError", kind |-> "ImportAlreadyExists",
     file_name |-> file_name, sha256 |-> sha, category |-> <<>>]

\* ImportRepository.create on a hash that is not registered.
ImportCreate(imps, file_name, sha) ==
    Append(imps, [id |-> Len(imps) + 1, file_name |-> file_name, sha256 |-> sha])

\* TransactionRepository.create
TransactionCreate(txns, t) ==
    Append(txns, [t EXCEPT !.id = Len(txns) + 1])

\* An update that writes the whole row back with its import link cleared.
TransactionSetCategory_ClearImport(txns, id, category_id) ==
    [txns EXCEPT ![id].category_id = category_id, ![id].import_id = NULL]

\* TransactionRepository.update of category_id on the row with this id.
TransactionSetCategory(txns, id, category_id) ==
    [txns EXCEPT ![id].category_id = category_id]

\* hashlib.sha256(content).hexdigest(): distinct contents, distinct digests.
Sha256(content) == <<"sha256", content>>

\* An exception as the caller sees it: its type, what it is about, and the
\* identifiers its message carries.
Raise(type, kind) ==
    [type |-> type, kind |-> kind, file_name |-> "", sha256 |-> <<>>,
     category |-> <<>>]

NoError == Raise("None", "None")

(***************************************************************************)
(* Parser A (fin/cgd.py): one tab-separated row of the CGD export.  A file *)
(* is a sequence of lines, a line the sequence of its tab-separated        *)
(* fields.  csv.DictReader keys the fields of a row by the header row and  *)
(* fills the columns a short row lacks with None.                          *)
(***************************************************************************)
Header ==
    <<"Data mov. ", "Data valor ", "Descricao ", "Debito ", "Credito ",
      "Saldo contabilistico ", "Saldo disponivel ", "Categoria ">>

SkippedLines == 6

\* row[name] of the dict csv.DictReader builds; "KeyError" if the header
\* has no such column.
HasColumn(header, name) == \E k \in 1..Len(header) : header[k] = name

Column(header, row, name) ==
    LET k == CHOOSE k \in 1..Len(header) : header[k] = name
    IN  IF k <= Len(row) THEN row[k] ELSE Missing

\* _parse_amount_cents: [exc, none, val]
ParseAmountCents(amount_field) ==
    IF amount_field = Missing
    THEN [exc |-> "AttributeError", none |-> TRUE, val |-> 0]
    ELSE IF amount_field = <<>>
    THEN [exc |-> "None", none |-> TRUE, val |-> 0]
    ELSE LET digits == Remove(Remove(amount_field, "."), ",")
         IN  IF IsIntLiteral(digits)
             THEN [exc |-> "None", none |-> FALSE, val |-> IntOf(digits)]
             ELSE [exc |-> "ValueError", none |-> TRUE, val |-> 0]

\* Truthiness of an optional amount (None and 0 are falsy).
AmountTruthy(a) == ~a.none /\ a.val # 0

DaysInMonth(m, y) ==
    IF m \in {4, 6, 9, 11} THEN 30
    ELSE IF m # 2 THEN 31
    ELSE IF (y % 4 = 0 /\ y % 100 # 0) \/ y % 400 = 0 THEN 29 ELSE 28

\* datetime.strptime(s, '%d-%m-%Y'): [exc, date]
NoDate == [year |-> 0, month |-> 0, day |-> 0]

StrptimeDMY(s) ==
    IF s = Missing THEN [exc |-> "TypeError", date |-> NoDate]
    ELSE LET parts == Split(s, <<"-">>)
             ok == /\ Len(parts) = 3
                   /\ IsDigits(parts[1]) /\ Len(parts[1]) \in 1..2
                   /\ IsDigits(parts[2]) /\ Len(parts[2]) \in 1..2
                   /\ IsDigits(parts[3]) /\ Len(parts[3]) = 4
                   /\ DigitsToInt(parts[2]) \in 1..12
                   /\ DigitsToInt(parts[3]) >= 1
                   /\ DigitsToInt(parts[1]) >= 1
                   /\ DigitsToInt(parts[1])
                        <= DaysInMonth(DigitsToInt(parts[2]), DigitsToInt(parts[3]))
         IN  IF ok
             THEN [exc |-> "None",
                   date |-> [year |-> DigitsToInt(parts[3]),
                             month |-> DigitsToInt(parts[2]),
                             day |-> DigitsToInt(parts[1])]]
             ELSE [exc |-> "ValueError", date |-> NoDate]

NewTransaction(created_at, description, amount_cents) ==
    [id |-> NULL, created_at |-> created_at, description |-> description,
     amount_cents |-> amount_cents, category_id |-> NULL,
     account_id |-> NULL, import_id |-> NULL]

NoTransaction == NewTransaction(NoDate, <<>>, 0)

\* cgd.parse_transaction: [exc, kind, txn], the statements in source order.
ParseTransaction(header, row) ==
    IF ~HasColumn(header, "Credito ") THEN [exc |-> "KeyError", kind |-> "Credito", txn |-> NoTransaction]
    ELSE LET credit == ParseAmountCents(Column(header, row, "Credito ")) IN
    IF credit.exc # "None" THEN [exc |-> credit.exc, kind |-> "Credito", txn |-> NoTransaction]
    ELSE IF ~HasColumn(header, "Debito ") THEN [exc |-> "KeyError", kind |-> "Debito", txn |-> NoTransaction]
    ELSE LET debit == ParseAmountCents(Column(header, row, "Debito ")) IN
    IF debit.exc # "None" THEN [exc |-> debit.exc, kind |-> "Debito", txn |-> NoTransaction]
    ELSE IF AmountTruthy(credit) /\ AmountTruthy(debit)
    THEN [exc |-> "ValueError", kind |-> "BothCreditAndDebit", txn |-> NoTransaction]
    ELSE IF ~AmountTruthy(credit) /\ debit.none
    THEN [exc |-> "TypeError", kind |-> "NegateNone", txn |-> NoTransaction]
    ELSE LET amount_cents == IF AmountTruthy(credit) THEN credit.val ELSE 0 - debit.val IN
    IF ~HasColumn(header, "Data mov. ") THEN [exc |-> "KeyError", kind |-> "Data mov.", txn |-> NoTransaction]
    ELSE LET created_at == StrptimeDMY(Column(header, row, "Data mov. ")) IN
    IF created_at.exc # "None" THEN [exc |-> created_at.exc, kind |-> "Data mov.", txn |-> NoTransaction]
    ELSE IF ~HasColumn(header, "Descricao ") THEN [exc |-> "KeyError", kind |-> "Descricao", txn |-> NoTransaction]
    ELSE [exc |-> "None", kind |-> "None",
          txn |-> NewTransaction(created_at.date,
                                 Column(header, row, "Descricao "), amount_cents)]

(***************************************************************************)
(* Parser B (fin/moey.py): the text lines of the Moey PDF statement.       *)
(***************************************************************************)
\* re.match(r"^\d{2}-\d{2}-\d{4} / \d{2}-\d{2}-\d{4} ", line)
IsDateAt(line, k) ==
    /\ \A i \in {0, 1, 3, 4, 6, 7, 8, 9} : line[k + i] \in Digits
    /\ line[k + 2] = "-"
    /\ line[k + 5] = "-"

IsTransaction(line) ==
    /\ Len(line) >= 24
    /\ IsDateAt(line, 1)
    /\ SubSeq(line, 11, 13) = <<" ", "/", " ">>
    /\ IsDateAt(line, 14)
    /\ line[24] = " "

\* seq[-k] of a Python list: IndexError when the list is shorter than k.
FromEnd(seq, k) == seq[Len(seq) - k + 1]

\* The body of the loop of parse_pdf for one matching line: [exc, txn].
ParseMoeyLine(line) ==
    LET account_date == Split(line, <<" ", "/", " ">>)[1]
        remaining_line == Tail(Split(Split(line, <<" ", "/", " ">>)[2], <<" ">>))
    IN  IF Len(remaining_line) < 3
        THEN [exc |-> "IndexError", txn |-> NoTransaction]
        ELSE LET digits == Remove(Remove(FromEnd(remaining_line, 3), ","), ".")
             IN  IF ~IsIntLiteral(digits)
                 THEN [exc |-> "ValueError", txn |-> NoTransaction]
                 ELSE LET amount_cents ==
                              IF FromEnd(remaining_line, 2) = <<"-">>
                              THEN 0 - IntOf(digits)
                              ELSE IntOf(digits)
                          description ==
                              Join(SubSeq(remaining_line, 1, Len(remaining_line) - 3), <<" ">>)
                          created_at == StrptimeDMY(account_date)
                      IN  IF created_at.exc # "None"
                          THEN [exc |-> created_at.exc, txn |-> NoTransaction]
                          ELSE [exc |-> "None",
                                txn |-> NewTransaction(created_at.date, description,
                                                       amount_cents)]

\* parse_pdf: [exc, txns]; an exception on any matching line leaves the
\* function, lines that do not match are passed over.
RECURSIVE ParsePdf(_, _)
ParsePdf(lines, acc) ==
    IF lines = <<>> THEN [exc |-> "None", txns |-> acc]
    ELSE IF ~IsTransaction(Head(lines)) THEN ParsePdf(Tail(lines), acc)
    ELSE LET p == ParseMoeyLine(Head(lines))
         IN  IF p.exc # "None"
             THEN [exc |-> p.exc, txns |-> <<>>]
             ELSE ParsePdf(Tail(lines), Append(acc, p.txn))

(***************************************************************************)
(* The importers (fin/service.py).                                         *)
(***************************************************************************)
\* The for loop of import_cgd_transactions over the rows of the reader:
\* [cats, txns, count, exc].  A ValueError in the body breaks the loop, any
\* other exception leaves the function; what was committed stays.
RECURSIVE ImportCgdRows(_, _, _, _, _, _, _)
ImportCgdRows(header, rows, cats, txns, count, account_id, import_id) ==
    IF rows = <<>>
    THEN [cats |-> cats, txns |-> txns, count |-> count, exc |-> NoError]
    ELSE IF Head(rows) = <<>>
    THEN ImportCgdRows(header, Tail(rows), cats, txns, count, account_id, import_id)
    ELSE LET p == ParseTransaction(header, Head(rows)) IN
    IF p.exc = "ValueError"
    THEN [cats |-> cats, txns |-> txns, count |-> count, exc |-> NoError]
    ELSE IF p.exc # "None"
    THEN [cats |-> cats, txns |-> txns, count |-> count, exc |-> Raise(p.exc, p.kind)]
    ELSE IF ~HasColumn(header, "Categoria ")
    THEN [cats |-> cats, txns |-> txns, count |-> count, exc |-> Raise("KeyError", "Categoria")]
    ELSE LET name == Column(header, Head(rows), "Categoria ") IN
    IF name = Missing
    THEN [cats |-> cats, txns |-> txns, count |-> count,
          exc |-> Raise("IntegrityError", "CategoryNameNull")]
    ELSE LET cats2 == CategoryCreate(cats, name)
             category == CHOOSE c \in CategoryGetByName(cats2, name) : TRUE
             t == [p.txn EXCEPT !.account_id = account_id,
                                !.category_id = category.id,
                                !.import_id = import_id]
         IN  ImportCgdRows(header, Tail(rows), cats2, TransactionCreate(txns, t),
                           count + 1, account_id, import_id)

\* The rows csv.DictReader yields for lines[6:]: the first line is the
\* header, the rest the data rows.
ContentLines(lines) == SubSeq(lines, SkippedLines + 1, Len(lines))

\* The for loop of import_moey_transactions.
RECURSIVE ImportMoeyTransactions(_, _, _, _)
ImportMoeyTransactions(parsed, txns, account_id, import_id) ==
    IF parsed = <<>> THEN txns
    ELSE ImportMoeyTransactions(
             Tail(parsed),
             TransactionCreate(txns, [Head(parsed) EXCEPT !.account_id = account_id,
                                                          !.import_id = import_id]),
             account_id, import_id)

(***************************************************************************)
(* The uploads the model draws from.  A CGD file is six preamble lines,    *)
(* the header row, up to MaxValidRows valid data rows and one of the       *)
(* tails; a Moey statement is up to MaxValidRows transaction lines and one *)
(* of the tails.                                                           *)
(***************************************************************************)
Date1 == <<"0", "1", "-", "0", "3", "-", "2", "0", "2", "4">>

DateISO == <<"2", "0", "2", "4", "-", "0", "3", "-", "0", "1">>

\* Data mov., Data valor, Descricao, Debito, Credito, Saldo c., Saldo d., Categoria
RowCredit ==
    <<Date1, Date1, <<"A", "b">>, <<>>, <<"1", ".", "2", "3", "4", ",", "5", "6">>, <<>>, <<>>, <<"F">>>>

RowDebit ==
    <<Date1, Date1, <<"a", "B", "c">>, <<"1", "2", ",", "5", "0">>, <<>>, <<>>, <<>>, <<"G">>>>

RowBoth ==
    <<Date1, Date1, <<"c">>, <<"1", "2", ",", "5", "0">>, <<"3", ",", "0", "0">>, <<>>, <<>>, <<"F">>>>

RowFooter ==
    <<<<" ">>, <<" ">>, <<" ">>, <<" ">>, <<" ">>, <<"S">>, <<"9", ",", "0", "0", " ", "X">>, <<" ">>>>

RowBadDate ==
    <<DateISO, DateISO, <<"c">>, <<>>, <<"3", ",", "0", "0">>, <<>>, <<>>, <<"F">>>>

RowNoAmount ==
    <<Date1, Date1, <<"c">>, <<>>, <<>>, <<>>, <<>>, <<"F">>>>

RowShort == <<<<"S", " ", "9", ",", "0", "0">>>>

RowNoCategory ==
    <<Date1, Date1, <<"c">>, <<>>, <<"3", ",", "0", "0">>, <<>>, <<>>>>

BlankLine == <<>>

ValidRow(i) == IF i % 2 = 1 THEN RowCredit ELSE RowDebit

ValidRows(n) == [i \in 1..n |-> ValidRow(i)]

CgdTails ==
    { <<>>,
      <<RowFooter, RowFooter, BlankLine>>,
      <<RowBoth, RowDebit>>,
      <<RowBadDate, RowCredit>>,
      <<RowNoAmount>>,
      <<RowShort>>,
      <<RowNoCategory>> }

Preamble == [i \in 1..SkippedLines |-> <<<<"x">>>>]

CgdFiles ==
    { Preamble \o <<Header>> \o ValidRows(n) \o tail :
        n \in 0..MaxValidRows, tail \in CgdTails }

LineCoffee == <<"0", "1", "-", "0", "4", "-", "2", "0", "2", "4", " ", "/", " ", "3", "1", "-", "0", "3", "-", "2", "0", "2", "4", " ", "C", "O", "F", "F", "E", "E", " ", "S", "H", "O", "P", " ", "1", "2", ",", "5", "0", " ", "-", " ", "X">>

LineSalary == <<"0", "2", "-", "0", "4", "-", "2", "0", "2", "4", " ", "/", " ", "0", "2", "-", "0", "4", "-", "2", "0", "2", "4", " ", "A", "b", " ", "1", ".", "0", "0", "0", ",", "0", "0", " ", "+", " ", "X">>

LineText == <<"P", "a", "g", "e", " ", "1", " ", "/", " ", "2">>

LineTooShort == <<"0", "3", "-", "0", "4", "-", "2", "0", "2", "4", " ", "/", " ", "0", "3", "-", "0", "4", "-", "2", "0", "2", "4", " ", "9", ",", "0", "0", " ", "-">>

LineBadAmount == <<"0", "3", "-", "0", "4", "-", "2", "0", "2", "4", " ", "/", " ", "0", "3", "-", "0", "4", "-", "2", "0", "2", "4", " ", "c", " ", "X", " ", "-", " ", "X">>

MoeyLine(i) == IF i % 2 = 1 THEN LineCoffee ELSE LineSalary

MoeyLines(n) == [i \in 1..n |-> MoeyLine(i)]

MoeyTails == { <<>>, <<LineText>>, <<LineTooShort>>, <<LineBadAmount>> }

MoeyFiles ==
    { <<LineText>> \o MoeyLines(n) \o tail :
        n \in 0..MaxValidRows, tail \in MoeyTails }

FileNames == {"a", "b"}

(***************************************************************************)
(* The state: the four tables of the store, and a record of the last call  *)
(* (its arguments, what it raised or returned, a bit that flips with every *)
(* call, so that a repeated call is a step of its own, and whether the     *)
(* call before it was the same call with the same arguments), and the      *)
(* calls in progress, for the operations that are followed statement by    *)
(* statement.                                                              *)
(***************************************************************************)
Call(op, args, exc, ret) ==
    [op |-> op, args |-> args, exc |-> exc, ret |-> ret, tick |-> 1 - last.tick,
     repeat |-> (last.op = op /\ last.args = args)]

\* An operation that runs from its first statement to its return with no
\* other operation in between: the caller gets its outcome and the list of
\* operations in progress stays as it was.
Returns(op, args, exc, ret) ==
    /\ last' = Call(op, args, exc, ret)
    /\ UNCHANGED running

Init ==
    /\ running = <<>>
    /\ accounts = {}
    /\ categories = {}
    /\ transactions = <<>>
    /\ imports = <<>>
    /\ last = [op |-> "none", args |-> <<>>, exc |-> NoError, ret |-> 0, tick |-> 0,
               repeat |-> FALSE]

\* service.import_cgd_transactions(uploaded_file)
ImportCgd(file_name, lines) ==
    LET accts2 == AccountCreate(accounts, "CGD", "bank")
        account == CHOOSE a \in AccountGetByName(accts2, "CGD") : TRUE
        file_sha256 == Sha256(lines)
        existing == ImportGetBySha256(imports, file_sha256)
        args == [file_name |-> file_name, sha256 |-> file_sha256, lines |-> lines]
    IN  /\ accounts' = accts2
        /\ IF existing # {}
           THEN /\ UNCHANGED <<categories, transactions, imports>>
                /\ Returns("import_cgd_transactions", args,
                                DuplicateImportError(file_name, file_sha256,
                                    imports[CHOOSE i \in existing : TRUE]), 0)
           ELSE LET imps2 == ImportCreate(imports, file_name, file_sha256)
                    import_id == imps2[Len(imps2)].id
                    content_lines == ContentLines(lines)
                    r == IF content_lines = <<>>
                         THEN [cats |-> categories, txns |-> transactions,
                               count |-> 0, exc |-> NoError]
                         ELSE ImportCgdRows(Head(content_lines), Tail(content_lines),
                                            categories, transactions, 0,
                                            account.id, import_id)
                    exc == IF r.exc.type # "None" THEN r.exc
                           ELSE IF r.count = 0
                                THEN Raise("ValueError", "NoTransactionsFound")
                                ELSE NoError
                IN  /\ imports' = imps2
                    /\ categories' = r.cats
                    /\ transactions' = r.txns
                    /\ Returns("import_cgd_transactions", args, exc, 0)

\* service.import_moey_transactions(uploaded_file)
ImportMoey(file_name, lines) ==
    LET accts2 == AccountCreate(accounts, "Moey", "bank")
        account == CHOOSE a \in AccountGetByName(accts2, "Moey") : TRUE
        file_sha256 == Sha256(lines)
        existing == ImportGetBySha256(imports, file_sha256)
        args == [file_name |-> file_name, sha256 |-> file_sha256, lines |-> lines]
    IN  /\ accounts' = accts2
        /\ UNCHANGED categories
        /\ IF existing # {}
           THEN /\ UNCHANGED <<transactions, imports>>
                /\ Returns("import_moey_transactions", args,
                                DuplicateImportError(file_name, file_sha256,
                                    imports[CHOOSE i \in existing : TRUE]), 0)
           ELSE LET imps2 == ImportCreate(imports, file_name, file_sha256)
                    import_id == imps2[Len(imps2)].id
                    parsed == ParsePdf(lines, <<>>)
                IN  /\ imports' = imps2
                    /\ IF parsed.exc # "None"
                       THEN /\ UNCHANGED transactions
                            /\ Returns("import_moey_transactions", args,
                                            Raise(parsed.exc, "ParsePdf"), 0)
                       ELSE /\ transactions' =
                                   ImportMoeyTransactions(parsed.txns, transactions,
                                                          account.id, import_id)
                            /\ Returns("import_moey_transactions", args,
                                            NoError, 0)

\* AccountRepository.create(Account(name=name, kind=kind)); it returns the row.
AccountRepositoryCreate(name, kind) ==
    /\ accounts' = AccountCreate(accounts, name, kind)
    /\ Returns("AccountRepository.create", [name |-> name, kind |-> kind],
                    NoError,
                    CHOOSE a \in AccountGetByName(accounts', name) : TRUE)
    /\ UNCHANGED <<categories, transactions, imports>>

AccountNames == {"CGD", "Cash"}

AccountKinds == {"bank", "credit"}

AccountRepositoryCreateStep ==
    \E name \in AccountNames, kind \in AccountKinds : AccountRepositoryCreate(name, kind)

\* The importers alone, on every upload of the two families; the number of
\* registered imports is capped, a re-upload of registered content is not.
Registered(lines) == \E i \in 1..Len(imports) : imports[i].sha256 = Sha256(lines)

ImportCgdStep ==
    \E f \in FileNames, lines \in CgdFiles :
        /\ Registered(lines) \/ Len(imports) < MaxImports
        /\ ImportCgd(f, lines)

ImportMoeyStep ==
    \E f \in FileNames, lines \in MoeyFiles :
        /\ Registered(lines) \/ Len(imports) < MaxImports
        /\ ImportMoey(f, lines)

NextImport == ImportCgdStep \/ ImportMoeyStep

SpecImport == Init /\ [][NextImport]_vars

(***************************************************************************)
(* Category management and categorization (fin/service.py).                *)
(***************************************************************************)
CategoryNotFound(category_name) ==
    [type |-> "ValueError", kind |-> "CategoryNotFound", file_name |-> "",
     sha256 |-> <<>>, category |-> category_name]

\* CategoryRepository.create(Category(name=name)), called on the repository;
\* it returns the row.
CategoryRepositoryCreate(name) ==
    /\ categories' = CategoryCreate(categories, name)
    /\ Returns("CategoryRepository.create", [name |-> name], NoError,
                    CHOOSE c \in CategoryGetByName(categories', name) : TRUE)
    /\ UNCHANGED <<accounts, transactions, imports>>

\* service.create_new_category(name)
CreateNewCategory(name) ==
    /\ IF Strip(name) = <<>>
       THEN /\ UNCHANGED categories
            /\ Returns("create_new_category", [name |-> name],
                            Raise("ValueError", "CategoryNameEmpty"), FALSE)
       ELSE /\ categories' = CategoryCreate(categories, Strip(name))
            /\ Returns("create_new_category", [name |-> name], NoError, TRUE)
    /\ UNCHANGED <<accounts, transactions, imports>>

\* service.delete_existing_category(category_name)
DeleteExistingCategory(category_name) ==
    LET category == CategoryGetByName(categories, category_name)
    IN  /\ IF category = {}
           THEN /\ UNCHANGED categories
                /\ Returns("delete_existing_category",
                                [category_name |-> category_name],
                                CategoryNotFound(category_name), FALSE)
           ELSE /\ categories' = categories \ category
                /\ Returns("delete_existing_category",
                                [category_name |-> category_name], NoError, TRUE)
        /\ UNCHANGED <<accounts, transactions, imports>>

\* A loop that ends at the first id get_by_id does not find.
RECURSIVE UpdateEach_StopAtMissing(_, _, _)
UpdateEach_StopAtMissing(txns, transaction_ids, category_id) ==
    IF transaction_ids = <<>> THEN txns
    ELSE LET transaction_id == Head(transaction_ids)
         IN  IF transaction_id \in 1..Len(txns)
             THEN UpdateEach_StopAtMissing(
                      TransactionSetCategory(txns, transaction_id, category_id),
                      Tail(transaction_ids), category_id)
             ELSE txns

\* The loop of update_transactions_category over transaction_ids: an id
\* get_by_id does not find is passed over.
RECURSIVE UpdateEach(_, _, _)
UpdateEach(txns, transaction_ids, category_id) ==
    IF transaction_ids = <<>> THEN txns
    ELSE LET transaction_id == Head(transaction_ids)
         IN  IF transaction_id \in 1..Len(txns)
             THEN UpdateEach(TransactionSetCategory(txns, transaction_id, category_id),
                             Tail(transaction_ids), category_id)
             ELSE UpdateEach(txns, Tail(transaction_ids), category_id)

\* service.update_transactions_category(transaction_ids, category_name)
UpdateTransactionsCategory(transaction_ids, category_name) ==
    LET category == CategoryGetByName(categories, category_name)
        args == [transaction_ids |-> transaction_ids, category_name |-> category_name]
    IN  /\ IF category = {}
           THEN /\ UNCHANGED transactions
                /\ Returns("update_transactions_category", args,
                                CategoryNotFound(category_name), FALSE)
           ELSE /\ transactions' =
                       UpdateEach(transactions, transaction_ids,
                                  (CHOOSE c \in category : TRUE).id)
                /\ Returns("update_transactions_category", args, NoError, TRUE)
        /\ UNCHANGED <<accounts, categories, imports>>

\* The ids of the transactions update_merchant_transactions updates.
MerchantMatches(txns, merchant) ==
    {i \in 1..Len(txns) : StartsWith(txns[i].description, merchant)}

\* Setting category_id on a set of rows, one update each.
SetCategoryOf(txns, ids, category_id) ==
    [i \in 1..Len(txns) |->
        IF i \in ids THEN [txns[i] EXCEPT !.category_id = category_id] ELSE txns[i]]

\* service.update_merchant_transactions(merchant, category_name)
UpdateMerchantTransactions(merchant, category_name) ==
    LET category == CategoryGetByName(categories, category_name)
        args == [merchant |-> merchant, category_name |-> category_name]
        updated == MerchantMatches(transactions, merchant)
    IN  /\ IF category = {}
           THEN /\ UNCHANGED transactions
                /\ Returns("update_merchant_transactions", args,
                                CategoryNotFound(category_name), FALSE)
           ELSE /\ transactions' =
                       SetCategoryOf(transactions, updated,
                                     (CHOOSE c \in category : TRUE).id)
                /\ Returns("update_merchant_transactions", args, NoError,
                                Cardinality(updated) > 0)
        /\ UNCHANGED <<accounts, categories, imports>>

\* A filter that drops the apply_to_all test.
Considered_Everything(txns, apply_to_all) == 1..Len(txns)

\* The transactions a pattern operation looks at: all of them, or those
\* whose category_id is falsy.
Considered(txns, apply_to_all) ==
    {i \in 1..Len(txns) : apply_to_all \/ ~Truthy(txns[i].category_id)}

\* A substring test that only looks at the start of the description.
PatternMatches_Prefix(description, pattern, case_sensitive) ==
    IF case_sensitive
    THEN StartsWith(description, pattern)
    ELSE StartsWith(Lower(description), Lower(pattern))

\* search_pattern in description, both lower-cased unless case_sensitive.
PatternMatches(description, pattern, case_sensitive) ==
    IF case_sensitive
    THEN Contains(description, pattern)
    ELSE Contains(Lower(description), Lower(pattern))

\* A selection that looks at every transaction, whatever its category.
PatternMatchIds_AnyCategory(txns, pattern, case_sensitive, apply_to_all) ==
    {i \in 1..Len(txns) :
        PatternMatches(txns[i].description, pattern, case_sensitive)}

\* The transactions apply_pattern_rule updates: the considered ones whose
\* description holds the pattern.

PatternMatchIds(txns, pattern, case_sensitive, apply_to_all) ==
    {i \in Considered(txns, apply_to_all) :
        PatternMatches(txns[i].description, pattern, case_sensitive)}

\* service.apply_pattern_rule(pattern, category_name, case_sensitive, apply_to_all)
ApplyPatternRule(pattern, category_name, case_sensitive, apply_to_all) ==
    LET category == CategoryGetByName(categories, category_name)
        args == [pattern |-> pattern, category_name |-> category_name,
                 case_sensitive |-> case_sensitive, apply_to_all |-> apply_to_all]
        updated == PatternMatchIds(transactions, pattern, case_sensitive, apply_to_all)
    IN  /\ IF category = {}
           THEN /\ UNCHANGED transactions
                /\ Returns("apply_pattern_rule", args,
                                CategoryNotFound(category_name), 0)
           ELSE /\ transactions' =
                       SetCategoryOf(transactions, updated,
                                     (CHOOSE c \in category : TRUE).id)
                /\ Returns("apply_pattern_rule", args, NoError,
                                Cardinality(updated))
        /\ UNCHANGED <<accounts, categories, imports>>

\* A count that drops the apply_to_all test.
CountMatches_AllTransactions(txns, pattern, case_sensitive, apply_to_all) ==
    Cardinality(PatternMatchIds(txns, pattern, case_sensitive, TRUE))

\* The count the loop of count_pattern_matches reaches.
CountMatches(txns, pattern, case_sensitive, apply_to_all) ==
    Cardinality(PatternMatchIds(txns, pattern, case_sensitive, apply_to_all))

\* service.count_pattern_matches(pattern, case_sensitive, apply_to_all)
CountPatternMatches(pattern, case_sensitive, apply_to_all) ==
    /\ Returns("count_pattern_matches",
                    [pattern |-> pattern, case_sensitive |-> case_sensitive,
                     apply_to_all |-> apply_to_all],
                    NoError,
                    CountMatches(transactions, pattern, case_sensitive, apply_to_all))
    /\ UNCHANGED <<accounts, categories, transactions, imports>>

(***************************************************************************)
(* Category management and categorization on a store filled by a           *)
(* well-formed upload: a Moey statement of two transaction lines (they     *)
(* carry no category).                                                     *)
(***************************************************************************)
SeedFileName == "a"

SeedLines == <<LineCoffee, LineSalary>>

SeedMoeyFile == <<LineText>> \o SeedLines

CategoryNames == { <<"F">>, <<"H">> }

\* The names the operations look up: those above and one no category has.
LookupNames == CategoryNames \cup { <<"h">> }

NewCategoryNames == { <<" ", "H", " ">>, <<" ">> }

Patterns == { <<"b">>, <<"B">> }

Merchants == { <<"A">>, <<"C", "O">> }

\* The ids of the seeded transactions and one id no transaction has.
TransactionIds == 1..(Len(SeedLines) + 1)

\* The lists of at most n distinct members of S.
RECURSIVE SeqsUpTo(_, _)
SeqsUpTo(S, n) ==
    IF n = 0 THEN {<<>>}
    ELSE SeqsUpTo(S, n - 1) \cup
         UNION {{Append(q, x) : x \in S \ {q[i] : i \in 1..Len(q)}} :
                    q \in {p \in SeqsUpTo(S, n - 1) : Len(p) = n - 1}}

TransactionIdLists == SeqsUpTo(TransactionIds, MaxIdList)

SeedMoeyStep == ~Registered(SeedMoeyFile) /\ ImportMoey(SeedFileName, SeedMoeyFile)

CategoryRepositoryCreateStep ==
    \E name \in CategoryNames :
        /\ CategoryRepositoryCreate(name)
        /\ \A c \in categories' : c.id <= MaxCategoryId

CreateNewCategoryStep ==
    \E name \in NewCategoryNames :
        /\ CreateNewCategory(name)
        /\ \A c \in categories' : c.id <= MaxCategoryId

DeleteExistingCategoryStep ==
    \E name \in LookupNames : DeleteExistingCategory(name)

UpdateTransactionsCategoryStep ==
    \E ids \in TransactionIdLists, name \in LookupNames :
        UpdateTransactionsCategory(ids, name)

UpdateMerchantTransactionsStep ==
    \E merchant \in Merchants, name \in LookupNames :
        UpdateMerchantTransactions(merchant, name)

ApplyPatternRuleStep ==
    \E pattern \in Patterns, name \in LookupNames,
       case_sensitive \in BOOLEAN, apply_to_all \in BOOLEAN :
        ApplyPatternRule(pattern, name, case_sensitive, apply_to_all)

Next ==
    \/ SeedMoeyStep
    \/ CategoryRepositoryCreateStep
    \/ CreateNewCategoryStep
    \/ DeleteExistingCategoryStep
    \/ UpdateTransactionsCategoryStep
    \/ UpdateMerchantTransactionsStep
    \/ ApplyPatternRuleStep

Spec == Init /\ [][Next]_vars

(***************************************************************************)
(* The pattern rule and its preview on the same store, with patterns that  *)
(* match in one case only, hold a character that is a wildcard elsewhere,  *)
(* or are empty (the empty text is in every text).                         *)
(***************************************************************************)
PatternInputs == { <<"b">>, <<"B">>, <<"F", "*">>, <<>> }

CountPatternMatchesStep ==
    \E pattern \in PatternInputs, case_sensitive \in BOOLEAN, apply_to_all \in BOOLEAN :
        CountPatternMatches(pattern, case_sensitive, apply_to_all)

ApplyPatternInputStep ==
    \E pattern \in PatternInputs, name \in LookupNames,
       case_sensitive \in BOOLEAN, apply_to_all \in BOOLEAN :
        ApplyPatternRule(pattern, name, case_sensitive, apply_to_all)

NextPattern ==
    \/ SeedMoeyStep
    \/ CategoryRepositoryCreateStep
    \/ CountPatternMatchesStep
    \/ ApplyPatternInputStep

SpecPattern == Init /\ [][NextPattern]_vars

(***************************************************************************)
(* Merchant groups (fin/service.py).                                       *)
(***************************************************************************)
MerchantKeyLength == 20

\* A key that keeps the blanks of the prefix.
MerchantKey_NoStrip(description) == Prefix(description, MerchantKeyLength)

\* t.description[:20].strip()
MerchantKey(description) == Strip(Prefix(description, MerchantKeyLength))

\* abs(x)
Abs(x) == IF x < 0 THEN 0 - x ELSE x

\* The position of the group with this key in the groups built so far, 0 if
\* there is none (merchant_key not in merchant_groups).
GroupIndex(groups, key) ==
    IF \E k \in 1..Len(groups) : groups[k].merchant = key
    THEN CHOOSE k \in 1..Len(groups) : groups[k].merchant = key
    ELSE 0

\* The name get_merchant_groups shows for a new group: that of the category
\* of the transaction that opens it, None if it has none or the category
\* is not found.
CurrentCategory(cats, t) ==
    IF Truthy(t.category_id) /\ CategoryGetById(cats, t.category_id) # {}
    THEN (CHOOSE c \in CategoryGetById(cats, t.category_id) : TRUE).name
    ELSE Missing

\* The loop of get_merchant_groups over the filtered transactions; the
\* groups stand in the order their keys first appear (dict order).  The
\* total is kept in cents here; the code adds abs(amount_cents / 100.0).
RECURSIVE GroupTransactions(_, _, _, _)
GroupTransactions(txns, cats, uncategorized_only, groups) ==
    IF txns = <<>> THEN groups
    ELSE LET t == Head(txns) IN
         IF uncategorized_only /\ Truthy(t.category_id)
         THEN GroupTransactions(Tail(txns), cats, uncategorized_only, groups)
         ELSE LET merchant_key == MerchantKey(t.description)
                  opened == IF GroupIndex(groups, merchant_key) = 0
                            THEN Append(groups,
                                        [merchant |-> merchant_key,
                                         transaction_count |-> 0,
                                         total_amount_cents |-> 0,
                                         current_category |-> CurrentCategory(cats, t)])
                            ELSE groups
                  k == GroupIndex(opened, merchant_key)
              IN  GroupTransactions(
                      Tail(txns), cats, uncategorized_only,
                      [opened EXCEPT
                          ![k].transaction_count = @ + 1,
                          ![k].total_amount_cents = @ + Abs(t.amount_cents)])

\* service.get_merchant_groups(uncategorized_only)
GetMerchantGroups(uncategorized_only) ==
    /\ Returns("get_merchant_groups", [uncategorized_only |-> uncategorized_only],
                    NoError,
                    GroupTransactions(transactions, categories, uncategorized_only, <<>>))
    /\ UNCHANGED <<accounts, categories, transactions, imports>>

(***************************************************************************)
(* Merchant groups on a store filled by a Moey statement whose             *)
(* descriptions share their first twenty characters, or differ in them     *)
(* only by blanks.                                                         *)
(***************************************************************************)
LineMarketLisboa == <<"0", "3", "-", "0", "4", "-", "2", "0", "2", "4", " ", "/", " ", "0", "3", "-", "0", "4", "-", "2", "0", "2", "4", " ", "S", "U", "P", "E", "R", "M", "E", "R", "C", "A", "D", "O", " ", "C", "E", "N", "T", "R", "A", "L", " ", "L", "I", "S", "B", "O", "A", " ", "1", "0", ",", "0", "0", " ", "-", " ", "X">>

LineMarketPorto == <<"0", "4", "-", "0", "4", "-", "2", "0", "2", "4", " ", "/", " ", "0", "4", "-", "0", "4", "-", "2", "0", "2", "4", " ", "S", "U", "P", "E", "R", "M", "E", "R", "C", "A", "D", "O", " ", "C", "E", "N", "T", "R", "A", "L", " ", "P", "O", "R", "T", "O", " ", "2", "0", ",", "0", "0", " ", "-", " ", "X">>

LineMarketRefund == <<"0", "5", "-", "0", "4", "-", "2", "0", "2", "4", " ", "/", " ", "0", "5", "-", "0", "4", "-", "2", "0", "2", "4", " ", "S", "U", "P", "E", "R", "M", "E", "R", "C", "A", "D", "O", " ", "C", "E", "N", "T", "R", "A", "L", "X", " ", "5", ",", "0", "0", " ", "+", " ", "X">>

LineMarketSplit == <<"0", "6", "-", "0", "4", "-", "2", "0", "2", "4", " ", "/", " ", "0", "6", "-", "0", "4", "-", "2", "0", "2", "4", " ", "S", "U", "P", "E", "R", "M", "E", "R", "C", "A", "D", "O", " ", "C", "E", "N", "T", "R", "A", " ", "L", " ", "1", ",", "0", "0", " ", "-", " ", "X">>

LineMarketShort == <<"0", "7", "-", "0", "4", "-", "2", "0", "2", "4", " ", "/", " ", "0", "7", "-", "0", "4", "-", "2", "0", "2", "4", " ", "S", "U", "P", "E", "R", "M", "E", "R", "C", "A", "D", "O", " ", "C", "E", "N", "T", "R", "A", " ", "2", ",", "0", "0", " ", "-", " ", "X">>

GroupLines ==
    <<LineMarketLisboa, LineMarketPorto, LineMarketRefund, LineMarketSplit,
      LineMarketShort>>

\* A statement of the first n of them.
GroupFiles == { <<LineText>> \o SubSeq(GroupLines, 1, n) : n \in 1..Len(GroupLines) }

GroupMerchants ==
    { <<"S", "U", "P", "E", "R">>,
      MerchantKey(ParseMoeyLine(LineMarketSplit).txn.description) }

SeedGroupsStep ==
    \E lines \in GroupFiles : imports = <<>> /\ ImportMoey(SeedFileName, lines)

CategorizeOneStep ==
    \E id \in 1..Len(GroupLines), name \in CategoryNames :
        UpdateTransactionsCategory(<<id>>, name)

UpdateGroupMerchantStep ==
    \E merchant \in GroupMerchants, name \in CategoryNames :
        UpdateMerchantTransactions(merchant, name)

GetMerchantGroupsStep ==
    \E uncategorized_only \in BOOLEAN : GetMerchantGroups(uncategorized_only)

NextGroups ==
    \/ SeedGroupsStep
    \/ CategoryRepositoryCreateStep
    \/ CategorizeOneStep
    \/ UpdateGroupMerchantStep
    \/ GetMerchantGroupsStep

SpecGroups == Init /\ [][NextGroups]_vars

(***************************************************************************)
(* Python floats (IEEE 754 binary64) as far as manual entry and display    *)
(* use them: a float is a sign and a significand of at most 53 bits, most  *)
(* significant first, times two to an exponent; the significand of zero is *)
(* empty.  Division and multiplication round to nearest, ties to even.     *)
(***************************************************************************)
FloatPrecision == 53

\* Zero bits appended to a dividend, enough for a quotient of more than
\* FloatPrecision bits.
GuardBits == 64

RECURSIVE NatBits(_)
NatBits(n) == IF n = 0 THEN <<>> ELSE Append(NatBits(n \div 2), n % 2)

\* The number a sequence of bits stands for, read from the most significant.
RECURSIVE BitsNatFrom(_, _)
BitsNatFrom(bits, acc) ==
    IF bits = <<>> THEN acc ELSE BitsNatFrom(Tail(bits), 2 * acc + Head(bits))

BitsNat(bits) == BitsNatFrom(bits, 0)

StripZeros(bits) ==
    IF \A i \in 1..Len(bits) : bits[i] = 0 THEN <<>>
    ELSE SubSeq(bits,
                CHOOSE i \in 1..Len(bits) :
                    bits[i] = 1 /\ \A j \in 1..(i - 1) : bits[j] = 0,
                Len(bits))

Zeros(n) == [i \in 1..n |-> 0]

Reverse(seq) == [i \in 1..Len(seq) |-> seq[Len(seq) + 1 - i]]

\* Arithmetic on long numbers goes by digits of ChunkBits bits.
ChunkBits == 16

ChunkBase == 2 ^ ChunkBits

\* The digits of a number in bits, most significant first.
Chunks(bits) ==
    LET n == (Len(bits) + ChunkBits - 1) \div ChunkBits
        padded == Zeros(n * ChunkBits - Len(bits)) \o bits
    IN  [j \in 1..n |->
            BitsNat(SubSeq(padded, (j - 1) * ChunkBits + 1, j * ChunkBits))]

\* The bits of a number in digits.
Unchunk(chunks) ==
    [i \in 1..(Len(chunks) * ChunkBits) |->
        (chunks[(i - 1) \div ChunkBits + 1]
            \div 2 ^ (ChunkBits - 1 - ((i - 1) % ChunkBits))) % 2]

\* Long division of a number in digits by a small divisor: [q, r].
RECURSIVE DivChunks(_, _, _, _)
DivChunks(chunks, d, r, q) ==
    IF chunks = <<>> THEN [q |-> q, r |-> r]
    ELSE LET v == r * ChunkBase + Head(chunks)
         IN  DivChunks(Tail(chunks), d, v % d, Append(q, v \div d))

DivBits(bits, d) ==
    LET qr == DivChunks(Chunks(bits), d, 0, <<>>)
    IN  [q |-> Unchunk(qr.q), r |-> qr.r]

\* A number times a small factor: the digits are taken from the least
\* significant (low), the product is built in acc.
RECURSIVE MulChunks(_, _, _, _)
MulChunks(low, k, carry, acc) ==
    IF low = <<>> THEN <<carry>> \o acc
    ELSE LET v == Head(low) * k + carry
         IN  MulChunks(Tail(low), k, v \div ChunkBase, <<v % ChunkBase>> \o acc)

MulBits(bits, k) == Unchunk(MulChunks(Reverse(Chunks(bits)), k, 0, <<>>))

\* A number in bits plus one.
IncBits(bits) ==
    IF \A i \in 1..Len(bits) : bits[i] = 1
    THEN <<1>> \o Zeros(Len(bits))
    ELSE LET p == CHOOSE i \in 1..Len(bits) :
                      bits[i] = 0 /\ \A j \in (i + 1)..Len(bits) : bits[j] = 1
         IN  [i \in 1..Len(bits) |->
                 IF i < p THEN bits[i] ELSE IF i = p THEN 1 ELSE 0]

\* The float nearest to bits * 2^e (plus a fraction of 2^e when inexact),
\* ties to the even significand.
RoundToFloat(sign, bits, e, inexact) ==
    IF Len(bits) <= FloatPrecision
    THEN [sign |-> sign, m |-> bits, e |-> e]
    ELSE LET kept == SubSeq(bits, 1, FloatPrecision)
             half == bits[FloatPrecision + 1] = 1
             rest == inexact \/ \E i \in (FloatPrecision + 2)..Len(bits) : bits[i] = 1
             up == half /\ (rest \/ kept[FloatPrecision] = 1)
             m == IF up THEN IncBits(kept) ELSE kept
             dropped == Len(bits) - FloatPrecision
         IN  IF Len(m) > FloatPrecision
             THEN [sign |-> sign, m |-> SubSeq(m, 1, FloatPrecision), e |-> e + dropped + 1]
             ELSE [sign |-> sign, m |-> m, e |-> e + dropped]

FloatZero == [sign |-> 1, m |-> <<>>, e |-> 0]

\* float(n)
FloatOfInt(n) ==
    IF n = 0 THEN FloatZero
    ELSE [sign |-> IF n < 0 THEN -1 ELSE 1, m |-> NatBits(IF n < 0 THEN 0 - n ELSE n),
          e |-> 0]

\* x / d for a float x and a small positive whole d
FloatDiv(x, d) ==
    IF x.m = <<>> THEN FloatZero
    ELSE LET qr == DivBits(x.m \o Zeros(GuardBits), d)
         IN  RoundToFloat(x.sign, StripZeros(qr.q), x.e - GuardBits, qr.r # 0)

\* x * k for a float x and a small positive whole k
FloatMul(x, k) ==
    IF x.m = <<>> THEN FloatZero
    ELSE RoundToFloat(x.sign, StripZeros(MulBits(x.m, k)), x.e, FALSE)

\* int(x): truncation toward zero
FloatToInt(x) ==
    IF x.m = <<>> THEN 0
    ELSE IF x.e >= 0 THEN x.sign * BitsNat(x.m \o Zeros(x.e))
    ELSE IF 0 - x.e >= Len(x.m) THEN 0
    ELSE x.sign * BitsNat(SubSeq(x.m, 1, Len(x.m) + x.e))

\* x == 0
FloatIsZero(x) == x.m = <<>>

CentsPerEuro == 100

\* The euro value shown for a transaction: t.amount_cents / 100.0
EuroDisplay(amount_cents) == FloatDiv(FloatOfInt(amount_cents), CentsPerEuro)

\* The cents create_manual_transaction stores: int(amount * 100)
ManualAmountCents(amount) == FloatToInt(FloatMul(amount, CentsPerEuro))

(***************************************************************************)
(* Manual entry (fin/service.py, app.py).                                  *)
(***************************************************************************)
\* service.create_manual_transaction(date, description, amount, account_id,
\* category_id): [exc, txns, ret]; every exception leaves as a ValueError.
CreateManual(txns, date, description, amount, account_id, category_id) ==
    IF Strip(description) = <<>>
    THEN [exc |-> Raise("ValueError", "DescriptionEmpty"), txns |-> txns,
          ret |-> NoTransaction]
    ELSE LET transaction ==
                 [NewTransaction(date, Strip(description), ManualAmountCents(amount))
                     EXCEPT !.account_id = account_id, !.category_id = category_id]
             txns2 == TransactionCreate(txns, transaction)
         IN  [exc |-> NoError, txns |-> txns2, ret |-> txns2[Len(txns2)]]

\* The call of the service on its own.
CreateManualTransaction(date, description, amount, account_id, category_id) ==
    LET r == CreateManual(transactions, date, description, amount, account_id,
                          category_id)
    IN  /\ transactions' = r.txns
        /\ Returns("create_manual_transaction",
                        [description |-> description, amount |-> amount,
                         account_id |-> account_id, category_id |-> category_id],
                        r.exc, r.ret)
        /\ UNCHANGED <<accounts, categories, imports>>

\* The submit handler of render_manual_transaction_entry: the form is shown
\* only when there is an account; it reports a blank description or a zero
\* amount and returns, otherwise it calls the service; selected_category is
\* a category of the store or none.
SubmitManualTransaction(date, description, amount, account, selected_category) ==
    LET args == [description |-> description, amount |-> amount,
                 account_id |-> account.id, category_id |-> selected_category]
    IN  /\ account \in accounts
        /\ selected_category = NULL \/ selected_category \in Ids(categories)
        /\ IF Strip(description) = <<>>
           THEN /\ UNCHANGED transactions
                /\ Returns("render_manual_transaction_entry", args,
                                Raise("st.error", "DescriptionRequired"), NoTransaction)
           ELSE IF FloatIsZero(amount)
           THEN /\ UNCHANGED transactions
                /\ Returns("render_manual_transaction_entry", args,
                                Raise("st.error", "AmountZero"), NoTransaction)
           ELSE LET r == CreateManual(transactions, date, description, amount,
                                      account.id, selected_category)
                IN  /\ transactions' = r.txns
                    /\ Returns("render_manual_transaction_entry", args,
                                    r.exc, r.ret)
        /\ UNCHANGED <<accounts, categories, imports>>

(***************************************************************************)
(* Manual entry of amounts of two decimals up to MaxCents cents, either    *)
(* sign, and of one amount below a cent.                                   *)
(***************************************************************************)
ManualDate == [year |-> 2024, month |-> 4, day |-> 1]

CentsInputs == (0 - MaxCents)..MaxCents

\* 0.004
SubCentAmount == FloatDiv(FloatOfInt(4), 1000)

ManualAmounts == {EuroDisplay(c) : c \in CentsInputs} \cup {SubCentAmount}

ManualEntries ==
    {[description |-> <<" ", "T", "e", "a">>, amount |-> a] : a \in ManualAmounts}
        \cup {[description |-> <<" ", " ">>, amount |-> EuroDisplay(CentsPerEuro)]}

CreateCashAccountStep ==
    accounts = {} /\ AccountRepositoryCreate("Cash", "credit")

CreateManualTransactionStep ==
    \E entry \in ManualEntries :
        /\ Len(transactions) < MaxManual
        /\ CreateManualTransaction(ManualDate, entry.description, entry.amount, 1, NULL)

SubmitManualTransactionStep ==
    \E entry \in ManualEntries, account \in accounts :
        /\ Len(transactions) < MaxManual
        /\ SubmitManualTransaction(ManualDate, entry.description, entry.amount,
                                   account, NULL)

NextManual ==
    \/ CreateCashAccountStep
    \/ CreateManualTransactionStep
    \/ SubmitManualTransactionStep

SpecManual == Init /\ [][NextManual]_vars

(***************************************************************************)
(* Renaming a category (fin/repositories/category.py).                     *)
(***************************************************************************)
NoCategory == [id |-> NULL, name |-> <<>>]

\* A rename that adds the renamed row and keeps the old one.
CategoryUpdate_KeepOld(cats, category_id, new_name) ==
    cats \cup {[id |-> category_id, name |-> new_name]}

\* The table after category.name = new_name is committed on the row with
\* this id.
CategoryUpdate(cats, category_id, new_name) ==
    {IF c.id = category_id THEN [c EXCEPT !.name = new_name] ELSE c : c \in cats}

\* CategoryRepository.update(category_id, new_name); the name column is
\* unique, so the commit of a name another row holds raises IntegrityError
\* and writes nothing.
CategoryRepositoryUpdate(category_id, new_name) ==
    LET category == CategoryGetById(categories, category_id)
        args == [category_id |-> category_id, new_name |-> new_name]
        taken == \E c \in categories : c.id # category_id /\ c.name = new_name
    IN  /\ IF category = {}
           THEN /\ UNCHANGED categories
                /\ Returns("CategoryRepository.update", args,
                                Raise("ValueError", "CategoryIdNotFound"), NoCategory)
           ELSE IF taken
           THEN /\ UNCHANGED categories
                /\ Returns("CategoryRepository.update", args,
                                Raise("IntegrityError", "CategoryNameUnique"), NoCategory)
           ELSE /\ categories' = CategoryUpdate(categories, category_id, new_name)
                /\ Returns("CategoryRepository.update", args, NoError,
                                CHOOSE c \in categories' : c.id = category_id)
        /\ UNCHANGED <<accounts, transactions, imports>>

\* The names a category is renamed to: those categories are created with
\* and one more.
UpdateNames == CategoryNames \cup { <<"G">> }

CategoryRepositoryUpdateStep ==
    \E category_id \in 1..(MaxCategoryId + 1), new_name \in UpdateNames :
        CategoryRepositoryUpdate(category_id, new_name)

(***************************************************************************)
(* The two parsers on their own: Parser A on one row of the reader, Parser *)
(* B on the text lines of a statement.                                     *)
(***************************************************************************)
\* cgd.parse_transaction(row) and cgd.parse_category(row), as the body of
\* the import loop calls them on a row.
ParseCgdRow(row) ==
    LET p == ParseTransaction(Header, row)
    IN  /\ Returns("parse_transaction", [row |-> row],
                        IF p.exc = "None" THEN NoError ELSE Raise(p.exc, p.kind),
                        [txn |-> p.txn,
                         category_name |-> Column(Header, row, "Categoria ")])
        /\ UNCHANGED <<accounts, categories, transactions, imports>>

\* moey.parse_pdf on the lines of the pages.
ParseMoeyPdf(lines) ==
    LET p == ParsePdf(lines, <<>>)
    IN  /\ Returns("parse_pdf", [lines |-> lines],
                        IF p.exc = "None" THEN NoError ELSE Raise(p.exc, "ParsePdf"),
                        p.txns)
        /\ UNCHANGED <<accounts, categories, transactions, imports>>

RowDates == { Date1, DateISO }

RowDescriptions == { <<"A", "b">>, <<" ", "a", " ", "B", " ">> }

RowCategoryNames == { <<"F">>, <<" ", "g", " ">> }

AmountFields ==
    { <<>>,
      <<"1", ".", "2", "3", "4", ",", "5", "6">>,
      <<"1", "2", ",", "5", "0">>,
      <<"0", ",", "0", "0">> }

\* Data mov., Data valor, Descricao, Debito, Credito, Saldo c., Saldo d., Categoria
ParserRows ==
    { <<d, d, description, debit, credit, <<>>, <<>>, name>> :
        d \in RowDates, description \in RowDescriptions,
        debit \in AmountFields, credit \in AmountFields, name \in RowCategoryNames }

LineSlash == <<"0", "5", "-", "0", "4", "-", "2", "0", "2", "4", " ", "/", " ", "0", "5", "-", "0", "4", "-", "2", "0", "2", "4", " ", "A", " ", "/", " ", "B", " ", "1", "2", ",", "5", "0", " ", "-", " ", "X">>

LineSlashAmount == <<"0", "6", "-", "0", "4", "-", "2", "0", "2", "4", " ", "/", " ", "0", "6", "-", "0", "4", "-", "2", "0", "2", "4", " ", "T", "A", "X", "I", " ", "7", ",", "0", "0", " ", "-", " ", "X", " ", "/", " ", "Y", " ", "1", "2", ",", "5", "0", " ", "-", " ", "X">>

PdfLines ==
    { LineCoffee, LineSalary, LineText, LineTooShort, LineBadAmount, LineSlash,
      LineSlashAmount, LineMarketLisboa }

\* A page of one line, or of two.
PdfPages == { <<l>> : l \in PdfLines } \cup { <<l, LineCoffee>> : l \in PdfLines }

ParseCgdRowStep == \E row \in ParserRows : ParseCgdRow(row)

ParseMoeyPdfStep == \E lines \in PdfPages : ParseMoeyPdf(lines)

NextParse == ParseCgdRowStep \/ ParseMoeyPdfStep

SpecParse == Init /\ [][NextParse]_vars

(***************************************************************************)
(* Category management through the service: create, rename and delete by   *)
(* name.                                                                   *)
(***************************************************************************)
\* A name column without the unique constraint.
NameHeldByOther_Unchecked(cats, category_id, new_name) == FALSE

\* The unique constraint on Category.name as the commit of a rename meets
\* it: another row holds the name.
NameHeldByOther(cats, category_id, new_name) ==
    \E c \in cats : c.id # category_id /\ c.name = new_name

\* service.update_existing_category(category_name, new_name); every
\* exception leaves as ValueError('Failed to update category: ...').
UpdateExistingCategory(category_name, new_name) ==
    LET args == [category_name |-> category_name, new_name |-> new_name]
        stripped == Strip(new_name)
        category == CategoryGetByName(categories, category_name)
    IN  /\ IF stripped = <<>>
           THEN /\ UNCHANGED categories
                /\ Returns("update_existing_category", args,
                                Raise("ValueError", "NewCategoryNameEmpty"), FALSE)
           ELSE IF category = {}
           THEN /\ UNCHANGED categories
                /\ Returns("update_existing_category", args,
                                CategoryNotFound(category_name), FALSE)
           ELSE LET category_id == (CHOOSE c \in category : TRUE).id IN
                IF NameHeldByOther(categories, category_id, stripped)
                THEN /\ UNCHANGED categories
                     /\ Returns("update_existing_category", args,
                                     Raise("ValueError", "CategoryNameUnique"), FALSE)
                ELSE /\ categories' = CategoryUpdate(categories, category_id, stripped)
                     /\ Returns("update_existing_category", args, NoError, TRUE)
        /\ UNCHANGED <<accounts, transactions, imports>>

\* The names typed into the management forms: with and without blanks
\* around them, and a blank one.
ManagedNames == { <<"F">>, <<" ", "H", " ">>, <<"G">>, <<" ">> }

CreateManagedCategoryStep ==
    \E name \in ManagedNames :
        /\ CreateNewCategory(name)
        /\ \A c \in categories' : c.id <= MaxCategoryId

UpdateExistingCategoryStep ==
    \E category_name \in LookupNames, new_name \in ManagedNames :
        UpdateExistingCategory(category_name, new_name)

NextManage ==
    \/ CreateManagedCategoryStep
    \/ UpdateExistingCategoryStep
    \/ DeleteExistingCategoryStep

SpecManage == Init /\ [][NextManage]_vars

(***************************************************************************)
(* The pattern operations of the categorization page, which run their own  *)
(* SQL on the store.                                                       *)
(***************************************************************************)
\* text LIKE pattern in SQLite: % stands for any run of characters, _ for
\* any one character, and letters compare without regard to case.
RECURSIVE SqlLike(_, _)
SqlLike(text, pattern) ==
    IF pattern = <<>> THEN text = <<>>
    ELSE IF Head(pattern) = "%"
    THEN \/ SqlLike(text, Tail(pattern))
         \/ text # <<>> /\ SqlLike(Tail(text), pattern)
    ELSE IF text = <<>> THEN FALSE
    ELSE IF Head(pattern) = "_" THEN SqlLike(Tail(text), Tail(pattern))
    ELSE /\ LowerChar(Head(text)) = LowerChar(Head(pattern))
         /\ SqlLike(Tail(text), Tail(pattern))

\* The WHERE clause on the description: description LIKE '%pattern%', both
\* sides through LOWER() unless case_sensitive.
UiPatternMatches(description, pattern, case_sensitive) ==
    LET pattern_param == <<"%">> \o pattern \o <<"%">>
    IN  IF case_sensitive
        THEN SqlLike(description, pattern_param)
        ELSE SqlLike(Lower(description), Lower(pattern_param))

\* The rows the WHERE clause selects: category_id IS NULL is added unless
\* apply_to_all.
UiPatternMatchIds(txns, pattern, case_sensitive, apply_to_all) ==
    {i \in 1..Len(txns) :
        /\ apply_to_all \/ txns[i].category_id = NULL
        /\ UiPatternMatches(txns[i].description, pattern, case_sensitive)}

\* ui.categorization.count_pattern_matches(pattern, case_sensitive, apply_to_all)
UiCountPatternMatches(pattern, case_sensitive, apply_to_all) ==
    /\ Returns("ui.count_pattern_matches",
                    [pattern |-> pattern, case_sensitive |-> case_sensitive,
                     apply_to_all |-> apply_to_all],
                    NoError,
                    Cardinality(UiPatternMatchIds(transactions, pattern,
                                                  case_sensitive, apply_to_all)))
    /\ UNCHANGED <<accounts, categories, transactions, imports>>

\* ui.categorization.apply_pattern_rule(pattern, category_name,
\* case_sensitive, apply_to_all): one UPDATE statement; it returns nothing.
UiApplyPatternRule(pattern, category_name, case_sensitive, apply_to_all) ==
    LET category_result == {c \in categories : c.name = category_name}
        args == [pattern |-> pattern, category_name |-> category_name,
                 case_sensitive |-> case_sensitive, apply_to_all |-> apply_to_all]
    IN  /\ IF category_result = {}
           THEN /\ UNCHANGED transactions
                /\ Returns("ui.apply_pattern_rule", args,
                                CategoryNotFound(category_name), NULL)
           ELSE /\ transactions' =
                       SetCategoryOf(transactions,
                                     UiPatternMatchIds(transactions, pattern,
                                                       case_sensitive, apply_to_all),
                                     (CHOOSE c \in category_result : TRUE).id)
                /\ Returns("ui.apply_pattern_rule", args, NoError, NULL)
        /\ UNCHANGED <<accounts, categories, imports>>

\* Patterns typed into the page: in either case, with the characters LIKE
\* reads as wildcards, and empty.
UiPatterns == { <<"b">>, <<"o">>, <<"_", "b">>, <<"%", "O">>, <<>> }

UiCountPatternMatchesStep ==
    \E pattern \in UiPatterns, case_sensitive \in BOOLEAN, apply_to_all \in BOOLEAN :
        UiCountPatternMatches(pattern, case_sensitive, apply_to_all)

UiApplyPatternRuleStep ==
    \E pattern \in UiPatterns, name \in LookupNames,
       case_sensitive \in BOOLEAN, apply_to_all \in BOOLEAN :
        UiApplyPatternRule(pattern, name, case_sensitive, apply_to_all)

NextUi ==
    \/ SeedMoeyStep
    \/ CategoryRepositoryCreateStep
    \/ UiCountPatternMatchesStep
    \/ UiApplyPatternRuleStep

SpecUi == Init /\ [][NextUi]_vars

(***************************************************************************)
(* Operations in progress.  Each service call opens a session of its own   *)
(* (db.get_session) and every repository call commits at once, so two      *)
(* calls that run at the same time interleave statement by statement: a    *)
(* lookup and the insert or update that follows it are separate steps, and *)
(* the store runs each statement on its own.  running holds, for each call *)
(* that was started, where it stands and what its session has read.        *)
(***************************************************************************)
Operation(op, args) ==
    [op |-> op, args |-> args, pc |-> "start", exc |-> NoError,
     account_id |-> NULL, import_id |-> NULL, rest |-> <<>>, count |-> 0,
     category_id |-> NULL, todo |-> <<>>, loaded |-> <<>>, committed |-> FALSE,
     created |-> {}]

\* A call starts while fewer than MaxRunning were started.
Begins(op, args, pc) ==
    /\ Len(running) < MaxRunning
    /\ running' = Append(running, [Operation(op, args) EXCEPT !.pc = pc])
    /\ UNCHANGED <<accounts, categories, transactions, imports, last>>

\* The call in progress at p ends: it raises exc, or returns ret.
Ends(p, exc, ret) ==
    /\ running' = [running EXCEPT ![p].pc = "done", ![p].exc = exc]
    /\ last' = Call(running[p].op, running[p].args, exc, ret)

\* The call in progress at p moves on to pc.
Goes(p, pc) ==
    /\ running' = [running EXCEPT ![p].pc = pc]
    /\ UNCHANGED last

At(p, pc) == p \in 1..Len(running) /\ running[p].pc = pc

(***************************************************************************)
(* import_cgd_transactions, statement by statement.                        *)
(***************************************************************************)
\* A hash column without the unique constraint.
Sha256Held_Unchecked(imps, sha) == FALSE

\* The unique constraint on Import.sha256 as the commit of a new Import
\* meets it: a row holds the hash.
Sha256Held(imps, sha) == \E i \in 1..Len(imps) : imps[i].sha256 = sha

BeginImportCgd(file_name, lines) ==
    Begins("import_cgd_transactions",
           [file_name |-> file_name, sha256 |-> Sha256(lines), lines |-> lines],
           "account_lookup")

\* account_repo.create: existing = self.get_by_name(account.name)
ImportAccountLookup(p) ==
    /\ At(p, "account_lookup")
    /\ LET existing == AccountGetByName(accounts, "CGD")
       IN  running' =
             IF existing # {}
             THEN [running EXCEPT ![p].pc = "import_lookup",
                                  ![p].account_id = (CHOOSE a \in existing : TRUE).id]
             ELSE [running EXCEPT ![p].pc = "account_insert"]
    /\ UNCHANGED <<accounts, categories, transactions, imports, last>>

\* account_repo.create: session.add(account); session.commit(). Account.name
\* is unique.
ImportAccountInsert(p) ==
    /\ At(p, "account_insert")
    /\ IF AccountGetByName(accounts, "CGD") # {}
       THEN /\ Ends(p, Raise("IntegrityError", "AccountNameUnique"), 0)
            /\ UNCHANGED accounts
       ELSE /\ accounts' = AccountCreate(accounts, "CGD", "bank")
            /\ running' =
                 [running EXCEPT ![p].pc = "import_lookup",
                                 ![p].account_id =
                                     (CHOOSE a \in AccountGetByName(accounts', "CGD") : TRUE).id]
            /\ UNCHANGED last
    /\ UNCHANGED <<categories, transactions, imports>>

\* import_repo.create: existing = self.get_by_sha256(import_.sha256)
ImportLookup(p) ==
    /\ At(p, "import_lookup")
    /\ LET a == running[p].args
           existing == ImportGetBySha256(imports, a.sha256)
       IN  IF existing # {}
           THEN Ends(p, DuplicateImportError(a.file_name, a.sha256,
                                             imports[CHOOSE i \in existing : TRUE]), 0)
           ELSE Goes(p, "import_insert")
    /\ UNCHANGED <<accounts, categories, transactions, imports>>

\* import_repo.create: session.add(import_); session.commit(); then the
\* reader is set up over lines[6:].
ImportInsert(p) ==
    /\ At(p, "import_insert")
    /\ LET a == running[p].args
           content_lines == ContentLines(a.lines)
       IN  IF Sha256Held(imports, a.sha256)
           THEN /\ Ends(p, Raise("IntegrityError", "ImportSha256Unique"), 0)
                /\ UNCHANGED imports
           ELSE /\ imports' = ImportCreate(imports, a.file_name, a.sha256)
                /\ running' =
                     [running EXCEPT ![p].pc = "row",
                                     ![p].import_id = imports'[Len(imports')].id,
                                     ![p].rest = IF content_lines = <<>> THEN <<>>
                                                 ELSE Tail(content_lines)]
                /\ UNCHANGED last
    /\ UNCHANGED <<accounts, categories, transactions>>

\* The reader passes over blank lines.
RECURSIVE NextRows(_)
NextRows(rows) ==
    IF rows # <<>> /\ Head(rows) = <<>> THEN NextRows(Tail(rows)) ELSE rows

\* The outcome of the import once the loop is left.
ImportOutcome(count) ==
    IF count = 0 THEN Raise("ValueError", "NoTransactionsFound") ELSE NoError

\* The head of the loop: the next row is parsed and its category looked up
\* (category_repo.create: existing = self.get_by_name(category.name)).
ImportRow(p) ==
    /\ At(p, "row")
    /\ LET o == running[p]
           header == Head(ContentLines(o.args.lines))
           rows == NextRows(o.rest)
       IN  IF rows = <<>> THEN Ends(p, ImportOutcome(o.count), 0)
           ELSE LET parsed == ParseTransaction(header, Head(rows)) IN
           IF parsed.exc = "ValueError" THEN Ends(p, ImportOutcome(o.count), 0)
           ELSE IF parsed.exc # "None" THEN Ends(p, Raise(parsed.exc, parsed.kind), 0)
           ELSE IF ~HasColumn(header, "Categoria ")
           THEN Ends(p, Raise("KeyError", "Categoria"), 0)
           ELSE LET name == Column(header, Head(rows), "Categoria ") IN
           IF name = Missing
           THEN Ends(p, Raise("IntegrityError", "CategoryNameNull"), 0)
           ELSE LET existing == CategoryGetByName(categories, name)
                IN  /\ running' =
                          IF existing # {}
                          THEN [running EXCEPT
                                   ![p].pc = "transaction", ![p].rest = rows,
                                   ![p].category_id = (CHOOSE c \in existing : TRUE).id]
                          ELSE [running EXCEPT
                                   ![p].pc = "category_insert", ![p].rest = rows]
                    /\ UNCHANGED last
    /\ UNCHANGED <<accounts, categories, transactions, imports>>

\* category_repo.create: session.add(category); session.commit().
\* Category.name is unique.
ImportCategoryInsert(p) ==
    /\ At(p, "category_insert")
    /\ LET o == running[p]
           header == Head(ContentLines(o.args.lines))
           name == Column(header, Head(o.rest), "Categoria ")
       IN  IF CategoryGetByName(categories, name) # {}
           THEN /\ Ends(p, Raise("IntegrityError", "CategoryNameUnique"), 0)
                /\ UNCHANGED categories
           ELSE /\ categories' = CategoryCreate(categories, name)
                /\ running' =
                     [running EXCEPT
                        ![p].pc = "transaction",
                        ![p].category_id =
                            (CHOOSE c \in CategoryGetByName(categories', name) : TRUE).id]
                /\ UNCHANGED last
    /\ UNCHANGED <<accounts, transactions, imports>>

\* transaction_repo.create(transaction); transaction_count += 1
ImportTransaction(p) ==
    /\ At(p, "transaction")
    /\ LET o == running[p]
           header == Head(ContentLines(o.args.lines))
           t == [ParseTransaction(header, Head(o.rest)).txn EXCEPT
                    !.account_id = o.account_id,
                    !.category_id = o.category_id,
                    !.import_id = o.import_id]
       IN  /\ transactions' = TransactionCreate(transactions, t)
           /\ running' = [running EXCEPT ![p].pc = "row",
                                         ![p].rest = Tail(o.rest),
                                         ![p].count = o.count + 1,
                                         ![p].created = o.created \cup {Len(transactions')}]
    /\ UNCHANGED <<accounts, categories, imports, last>>

\* The statements uploaded at the same time: one row, the same row and one
\* that ends the import, and no row at all.
ConcurrentFiles ==
    { Preamble \o <<Header>> \o <<RowCredit>>,
      Preamble \o <<Header>> \o <<RowCredit, RowBadDate>>,
      Preamble \o <<Header>> }

BeginImportCgdStep ==
    \E lines \in ConcurrentFiles : BeginImportCgd(SeedFileName, lines)

ImportAccountLookupStep == \E p \in 1..Len(running) : ImportAccountLookup(p)

ImportAccountInsertStep == \E p \in 1..Len(running) : ImportAccountInsert(p)

ImportLookupStep == \E p \in 1..Len(running) : ImportLookup(p)

ImportInsertStep == \E p \in 1..Len(running) : ImportInsert(p)

ImportRowStep == \E p \in 1..Len(running) : ImportRow(p)

ImportCategoryInsertStep == \E p \in 1..Len(running) : ImportCategoryInsert(p)

ImportTransactionStep == \E p \in 1..Len(running) : ImportTransaction(p)

NextConcurrentImport ==
    \/ BeginImportCgdStep
    \/ ImportAccountLookupStep
    \/ ImportAccountInsertStep
    \/ ImportLookupStep
    \/ ImportInsertStep
    \/ ImportRowStep
    \/ ImportCategoryInsertStep
    \/ ImportTransactionStep

SpecConcurrentImport == Init /\ [][NextConcurrentImport]_vars

(***************************************************************************)
(* apply_pattern_rule, statement by statement.                             *)
(***************************************************************************)
\* The elements of a set of ids in rising order, as get_all lists the rows.
RECURSIVE Ascending(_)
Ascending(ids) ==
    IF ids = {} THEN <<>>
    ELSE LET least == CHOOSE i \in ids : \A j \in ids : i <= j
         IN  <<least>> \o Ascending(ids \ {least})

BeginApplyPatternRule(pattern, category_name, case_sensitive, apply_to_all) ==
    Begins("apply_pattern_rule",
           [pattern |-> pattern, category_name |-> category_name,
            case_sensitive |-> case_sensitive, apply_to_all |-> apply_to_all],
           "category_lookup")

\* category = category_repo.get_by_name(category_name)
ApplyCategoryLookup(p) ==
    /\ At(p, "category_lookup")
    /\ LET category == CategoryGetByName(categories, running[p].args.category_name)
       IN  IF category = {}
           THEN Ends(p, CategoryNotFound(running[p].args.category_name), 0)
           ELSE /\ running' = [running EXCEPT
                                  ![p].pc = "get_all",
                                  ![p].category_id = (CHOOSE c \in category : TRUE).id]
                /\ UNCHANGED last
    /\ UNCHANGED <<accounts, categories, transactions, imports>>

\* all_transactions = transaction_repo.get_all(), then the filter: the
\* session holds the rows as they are now, and the loop will run over
\* those of them that are considered and hold the pattern.
ApplyGetAll(p) ==
    /\ At(p, "get_all")
    /\ LET a == running[p].args
           todo == Ascending(PatternMatchIds(transactions, a.pattern,
                                             a.case_sensitive, a.apply_to_all))
       IN  IF todo = <<>>
           THEN Ends(p, NoError, 0)
           ELSE /\ running' = [running EXCEPT
                                  ![p].pc = "update",
                                  ![p].todo = todo,
                                  ![p].loaded = [i \in 1..Len(transactions) |->
                                                    transactions[i].category_id]]
                /\ UNCHANGED last
    /\ UNCHANGED <<accounts, categories, transactions, imports>>

\* transaction.category_id = category.id; transaction_repo.update(transaction)
\* for the next transaction of the loop.  The UPDATE is issued when the
\* value differs from the one the session holds for the row: the one read
\* by get_all, or, once the session has committed (which expires what it
\* holds), the one in the store now.  The call returns after the last one.
ApplyUpdate(p) ==
    /\ At(p, "update")
    /\ LET o == running[p]
           id == Head(o.todo)
           held == IF o.committed THEN transactions[id].category_id ELSE o.loaded[id]
       IN  /\ transactions' =
                 IF held = o.category_id THEN transactions
                 ELSE TransactionSetCategory(transactions, id, o.category_id)
           /\ IF Tail(o.todo) = <<>>
              THEN /\ running' = [running EXCEPT
                                     ![p].pc = "done", ![p].todo = <<>>,
                                     ![p].committed = TRUE,
                                     ![p].count = o.count + 1]
                   /\ last' = Call(o.op, o.args, NoError, o.count + 1)
              ELSE /\ running' = [running EXCEPT
                                     ![p].todo = Tail(o.todo),
                                     ![p].committed = TRUE,
                                     ![p].count = o.count + 1]
                   /\ UNCHANGED last
    /\ UNCHANGED <<accounts, categories, imports>>

\* The rules applied at the same time: one that every description holds and
\* one that one description holds.
ConcurrentPatterns == { <<>>, <<"b">> }

BeginApplyPatternRuleStep ==
    \E pattern \in ConcurrentPatterns, name \in LookupNames, apply_to_all \in BOOLEAN :
        BeginApplyPatternRule(pattern, name, FALSE, apply_to_all)

ApplyCategoryLookupStep == \E p \in 1..Len(running) : ApplyCategoryLookup(p)

ApplyGetAllStep == \E p \in 1..Len(running) : ApplyGetAll(p)

ApplyUpdateStep == \E p \in 1..Len(running) : ApplyUpdate(p)

NextConcurrentApply ==
    \/ SeedMoeyStep
    \/ CategoryRepositoryCreateStep
    \/ BeginApplyPatternRuleStep
    \/ ApplyCategoryLookupStep
    \/ ApplyGetAllStep
    \/ ApplyUpdateStep

SpecConcurrentApply == Init /\ [][NextConcurrentApply]_vars

\* The repositories of categories and accounts alone.
NextRepo ==
    \/ CategoryRepositoryCreateStep
    \/ AccountRepositoryCreateStep
    \/ DeleteExistingCategoryStep
    \/ CategoryRepositoryUpdateStep

SpecRepo == Init /\ [][NextRepo]_vars

(***************************************************************************)
(* Properties of the importers.                                            *)
(***************************************************************************)
IsImportCall(c) ==
    c.op \in {"import_cgd_transactions", "import_moey_transactions"}

IsDuplicateRejection(c) ==
    IsImportCall(c) /\ c.exc.type = "ValueError" /\ c.exc.kind = "ImportAlreadyExists"

\* The import rows registered under a digest.
RowsWithSha(imps, sha) == {i \in 1..Len(imps) : imps[i].sha256 = sha}

\* The transactions that belong to the imports registered under a digest.
TransactionsOfSha(sha) ==
    {i \in 1..Len(transactions) :
        \E k \in RowsWithSha(imports, sha) : transactions[i].import_id = imports[k].id}

\* The data rows of a CGD file (blank lines are not rows).
DataRows(lines) ==
    SelectSeq(SubSeq(lines, SkippedLines + 2, Len(lines)), LAMBDA row : row # <<>>)

Parses(row) == ParseTransaction(Header, row).exc = "None"

\* The number of data rows that parse before the first one that does not.
RECURSIVE LeadingValid(_)
LeadingValid(rows) ==
    IF rows = <<>> \/ ~Parses(Head(rows)) THEN 0 ELSE 1 + LeadingValid(Tail(rows))

\* C1: an import of content whose digest is already registered raises the
\* duplicate-import error and leaves the transactions (so the number of
\* transactions of every account) and the imports as they were, whatever
\* the file name; and no digest is ever registered twice.
C1_DuplicateImportRejected ==
    [][ /\ (IsImportCall(last') /\ RowsWithSha(imports, last'.args.sha256) # {})
            => /\ IsDuplicateRejection(last')
               /\ transactions' = transactions
               /\ imports' = imports
        /\ \A i, j \in 1..Len(imports') :
              imports'[i].sha256 = imports'[j].sha256 => i = j ]_vars

\* C1 witness: content that persisted transactions is uploaded again under
\* another file name and rejected.
C1_Witness ==
    /\ IsDuplicateRejection(last)
    /\ \E k \in RowsWithSha(imports, last.args.sha256) :
          /\ imports[k].file_name # last.args.file_name
          /\ \E i \in 1..Len(transactions) : transactions[i].import_id = imports[k].id

\* A CGD row whose credit and debit columns both hold an amount.
IsAmbiguousRow(row) ==
    /\ Len(row) >= 5
    /\ ParseAmountCents(row[4]).exc = "None" /\ ~ParseAmountCents(row[4]).none
    /\ ParseAmountCents(row[5]).exc = "None" /\ ~ParseAmountCents(row[5]).none
    /\ ParseAmountCents(row[4]).val # 0
    /\ ParseAmountCents(row[5]).val # 0

\* C2: a CGD import whose file holds, after valid rows, a row with both
\* credit and debit populated ends with an error and persists no
\* transaction of that file.
C2_AmbiguousRowAbortsImport ==
    ( /\ last.op = "import_cgd_transactions"
      /\ ~IsDuplicateRejection(last)
      /\ LeadingValid(DataRows(last.args.lines)) < Len(DataRows(last.args.lines))
      /\ IsAmbiguousRow(DataRows(last.args.lines)[LeadingValid(DataRows(last.args.lines)) + 1]) )
    => /\ last.exc.type # "None"
       /\ TransactionsOfSha(last.args.sha256) = {}

\* C3: an import that ends with an error leaves no Import row registered by
\* it and no transaction created by it.
C3_FailedImportCommitsNothing ==
    (IsImportCall(last) /\ last.exc.type # "None" /\ ~IsDuplicateRejection(last))
    => /\ RowsWithSha(imports, last.args.sha256) = {}
       /\ TransactionsOfSha(last.args.sha256) = {}

\* A CGD file of N >= 1 valid rows followed only by footer rows, none of
\* which parses as a transaction.
IsWellFormedWithFooter(lines) ==
    LET rows == DataRows(lines)
        n == LeadingValid(rows)
    IN  /\ n >= 1
        /\ n < Len(rows)
        /\ \A k \in (n + 1)..Len(rows) : ~Parses(rows[k]) /\ ~IsAmbiguousRow(rows[k])

\* C4: importing a CGD file of N valid rows followed by footer lines that do
\* not parse raises no error and persists exactly N transactions, the k-th
\* of them built from the k-th row.
C4_ValidRowsThenFooter ==
    ( /\ last.op = "import_cgd_transactions"
      /\ ~IsDuplicateRejection(last)
      /\ IsWellFormedWithFooter(last.args.lines) )
    => LET rows == DataRows(last.args.lines)
           n == LeadingValid(rows)
           first == Len(transactions) - n
       IN  /\ last.exc.type = "None"
           /\ Cardinality(TransactionsOfSha(last.args.sha256)) = n
           /\ first >= 0
           /\ \A k \in 1..n :
                 LET t == transactions[first + k]
                     p == ParseTransaction(Header, rows[k]).txn
                 IN  /\ first + k \in TransactionsOfSha(last.args.sha256)
                     /\ t.description = p.description
                     /\ t.amount_cents = p.amount_cents
                     /\ t.created_at = p.created_at

\* C5: a CGD import of a file whose first data row does not parse (or that
\* has no data row) raises the 'no transactions found' error.
C5_NoRowsIsNoTransactionsFound ==
    ( /\ last.op = "import_cgd_transactions"
      /\ ~IsDuplicateRejection(last)
      /\ LeadingValid(DataRows(last.args.lines)) = 0 )
    => /\ last.exc.type = "ValueError"
       /\ last.exc.kind = "NoTransactionsFound"

\* C6 as stated: the duplicate-import error names the file name stored in
\* the Import row already registered under the digest.
C6_ErrorNamesOriginalFile ==
    IsDuplicateRejection(last)
    => \A k \in RowsWithSha(imports, last.args.sha256) :
          last.exc.file_name = imports[k].file_name

\* C6 as amended: the duplicate-import error names the file name of the
\* rejected upload and the digest, under which exactly one Import row (the
\* original) is registered.
C6_ErrorNamesRejectedUpload ==
    IsDuplicateRejection(last)
    => /\ last.exc.file_name = last.args.file_name
       /\ last.exc.sha256 = last.args.sha256
       /\ Cardinality(RowsWithSha(imports, last.exc.sha256)) = 1

\* C6 witness: a rejected re-upload whose file name differs from the one
\* stored with the digest.
C6_Witness ==
    /\ IsDuplicateRejection(last)
    /\ \E k \in RowsWithSha(imports, last.args.sha256) :
          imports[k].file_name # last.args.file_name

(***************************************************************************)
(* Properties of category management and categorization.                   *)
(***************************************************************************)
IsCategorization(c) ==
    c.op \in {"update_transactions_category", "update_merchant_transactions",
              "apply_pattern_rule"}

Resolves(cats, name) == \E c \in cats : c.name = name

\* C7: a successful apply_pattern_rule called again at once with the same
\* pattern, category name and flags changes no transaction, and in
\* uncategorized-only mode it returns an updated count of 0.
C7_PatternRuleIdempotent ==
    [][ ( /\ last.op = "apply_pattern_rule"
          /\ last.exc.type = "None"
          /\ last'.op = "apply_pattern_rule"
          /\ last'.args = last.args )
        => /\ last'.exc.type = "None"
           /\ transactions' = transactions
           /\ ~last'.args.apply_to_all => last'.ret = 0 ]_vars

\* C7 witness: the second of two identical uncategorized-only applications
\* returned 0 while a transaction carries the category the first one gave it.
C7_Witness ==
    /\ last.op = "apply_pattern_rule"
    /\ last.repeat
    /\ last.exc.type = "None"
    /\ ~last.args.apply_to_all
    /\ last.ret = 0
    /\ \E i \in 1..Len(transactions), c \in categories :
          /\ c.name = last.args.category_name
          /\ transactions[i].category_id = c.id
          /\ PatternMatches(transactions[i].description, last.args.pattern,
                            last.args.case_sensitive)

\* C8: a repository create of a Category or an Account whose name exists
\* raises nothing, returns the existing row (same id, and for an account the
\* kind it had) and leaves the table as it was; after every create exactly
\* one row has the name.
C8_CreateOrFindIdempotent ==
    [][ /\ last'.op = "CategoryRepository.create"
            => /\ last'.exc.type = "None"
               /\ Cardinality({c \in categories' : c.name = last'.args.name}) = 1
               /\ last'.ret \in categories'
               /\ last'.ret.name = last'.args.name
               /\ Resolves(categories, last'.args.name)
                    => categories' = categories /\ last'.ret \in categories
        /\ last'.op = "AccountRepository.create"
            => /\ last'.exc.type = "None"
               /\ Cardinality({a \in accounts' : a.name = last'.args.name}) = 1
               /\ last'.ret \in accounts'
               /\ last'.ret.name = last'.args.name
               /\ (\E a \in accounts : a.name = last'.args.name)
                    => accounts' = accounts /\ last'.ret \in accounts ]_vars

\* C8 witness: an Account create under an existing name and another kind
\* returned the existing row, in a store that holds more than one category.
C8_Witness ==
    /\ last.op = "AccountRepository.create"
    /\ last.ret \in accounts
    /\ last.ret.kind # last.args.kind
    /\ Cardinality(categories) > 1

\* C9: a categorization operation whose category name does not resolve
\* raises the 'category not found' error naming that name and changes no
\* transaction.
C9_CategoryNotFound ==
    [][ (IsCategorization(last') /\ ~Resolves(categories, last'.args.category_name))
        => /\ last'.exc.type = "ValueError"
           /\ last'.exc.kind = "CategoryNotFound"
           /\ last'.exc.category = last'.args.category_name
           /\ transactions' = transactions ]_vars

\* C9 witness: apply_pattern_rule raised 'category not found' for a name
\* that differs from an existing category's name only by case, with
\* uncategorized transactions in the store.
C9_Witness ==
    /\ last.op = "apply_pattern_rule"
    /\ last.exc.kind = "CategoryNotFound"
    /\ \E c \in categories :
          c.name # last.args.category_name /\ Lower(c.name) = Lower(last.args.category_name)
    /\ \E i \in 1..Len(transactions) : transactions[i].category_id = NULL

\* The ids a list holds.
Range(seq) == {seq[i] : i \in 1..Len(seq)}

\* C10: update_transactions_category with a resolving name raises nothing
\* whatever ids it is given, creates no transaction, gives every existing
\* transaction whose id is in the list the category, and leaves the others
\* as they were.
C10_MissingIdIsNoOp ==
    [][ (last'.op = "update_transactions_category"
            /\ Resolves(categories, last'.args.category_name))
        => /\ last'.exc.type = "None"
           /\ Len(transactions') = Len(transactions)
           /\ \A i \in 1..Len(transactions) :
                 IF i \in Range(last'.args.transaction_ids)
                 THEN /\ \E c \in categories :
                            /\ c.name = last'.args.category_name
                            /\ transactions'[i].category_id = c.id
                      /\ [transactions'[i] EXCEPT !.category_id = NULL]
                           = [transactions[i] EXCEPT !.category_id = NULL]
                 ELSE transactions'[i] = transactions[i] ]_vars

\* C10 witness: a list holding an id of no transaction before an id of an
\* existing one was applied without error, and the existing one has the
\* category.
C10_Witness ==
    /\ last.op = "update_transactions_category"
    /\ last.exc.type = "None"
    /\ Len(last.args.transaction_ids) >= 2
    /\ last.args.transaction_ids[1] > Len(transactions)
    /\ last.args.transaction_ids[2] \in 1..Len(transactions)
    /\ \E c \in categories :
          /\ c.name = last.args.category_name
          /\ transactions[last.args.transaction_ids[2]].category_id = c.id

\* C11: update_merchant_transactions has an uncategorized-only mode: applied
\* in it, the operation leaves every transaction that already has a category
\* as it was, whatever its description.
C11_UncategorizedOnlyKeepsCategorized ==
    [][ (last'.op = "update_merchant_transactions" /\ last'.exc.type = "None")
        => \A i \in 1..Len(transactions) :
              Truthy(transactions[i].category_id)
                  => transactions'[i] = transactions[i] ]_vars

IsPatternCall(c) == c.op \in {"count_pattern_matches", "apply_pattern_rule"}

\* C13: count_pattern_matches raises nothing and changes no table; and an
\* apply_pattern_rule that runs next, with the same pattern and flags and a
\* category name that resolves, returns the count the preview returned.
C13_PreviewCountsWhatApplyUpdates ==
    [][ /\ last'.op = "count_pattern_matches"
            => /\ last'.exc.type = "None"
               /\ UNCHANGED <<accounts, categories, transactions, imports>>
        /\ ( /\ last.op = "count_pattern_matches"
             /\ last'.op = "apply_pattern_rule"
             /\ last'.args.pattern = last.args.pattern
             /\ last'.args.case_sensitive = last.args.case_sensitive
             /\ last'.args.apply_to_all = last.args.apply_to_all
             /\ last'.exc.type = "None" )
            => last'.ret = last.ret ]_vars

\* C13 witness: an uncategorized-only preview counted a match while another
\* transaction that holds the pattern has a category (and is not counted),
\* with a category to apply.
C13_Witness ==
    /\ last.op = "count_pattern_matches"
    /\ ~last.args.apply_to_all
    /\ last.ret = 1
    /\ categories # {}
    /\ Cardinality({i \in 1..Len(transactions) :
          PatternMatches(transactions[i].description, last.args.pattern,
                         last.args.case_sensitive)}) = 2

\* pattern occurs in text as a run of adjacent characters starting at k.
OccursAt(text, pattern, k) ==
    /\ k + Len(pattern) - 1 <= Len(text)
    /\ \A j \in 1..Len(pattern) : text[k + j - 1] = pattern[j]

OccursIn(text, pattern) == \E k \in 1..(Len(text) + 1) : OccursAt(text, pattern, k)

\* Substring containment, every character standing for itself.
IsSubstringMatch(description, pattern, case_sensitive) ==
    IF case_sensitive
    THEN OccursIn(description, pattern)
    ELSE OccursIn(Lower(description), Lower(pattern))

\* C14: a successful apply_pattern_rule gives the category to exactly the
\* considered transactions whose description holds the pattern as a
\* substring (compared as written, or both lower-cased), changes nothing
\* else of them, leaves every other transaction as it was and returns their
\* number; count_pattern_matches returns the number of the same transactions.
C14_SubstringContainment ==
    [][ LET hits == {i \in 1..Len(transactions) :
                        /\ last'.args.apply_to_all \/ ~Truthy(transactions[i].category_id)
                        /\ IsSubstringMatch(transactions[i].description,
                                            last'.args.pattern,
                                            last'.args.case_sensitive)}
        IN  /\ (last'.op = "apply_pattern_rule" /\ last'.exc.type = "None")
                => /\ last'.ret = Cardinality(hits)
                   /\ Len(transactions') = Len(transactions)
                   /\ \A i \in 1..Len(transactions) :
                         IF i \in hits
                         THEN /\ \E c \in categories :
                                    /\ c.name = last'.args.category_name
                                    /\ transactions'[i].category_id = c.id
                              /\ [transactions'[i] EXCEPT !.category_id = NULL]
                                   = [transactions[i] EXCEPT !.category_id = NULL]
                         ELSE transactions'[i] = transactions[i]
            /\ last'.op = "count_pattern_matches"
                => last'.ret = Cardinality(hits) ]_vars

\* C14 witness: a case-insensitive rule whose pattern stands inside a
\* description in the other case, not at its start, categorized that
\* transaction and left another, which lacks the pattern, uncategorized.
C14_Witness ==
    /\ last.op = "apply_pattern_rule"
    /\ last.exc.type = "None"
    /\ ~last.args.case_sensitive
    /\ last.ret = 1
    /\ \E i, j \in 1..Len(transactions), c \in categories :
          /\ c.name = last.args.category_name
          /\ transactions[i].category_id = c.id
          /\ ~OccursIn(transactions[i].description, last.args.pattern)
          /\ ~OccursAt(Lower(transactions[i].description), Lower(last.args.pattern), 1)
          /\ OccursIn(Lower(transactions[i].description), Lower(last.args.pattern))
          /\ transactions[j].category_id = NULL

(***************************************************************************)
(* Properties of the merchant groups.                                      *)
(***************************************************************************)
\* The first 20 characters of a description, trimmed.
TrimmedPrefix20(description) ==
    Strip(SubSeq(description, 1, IF Len(description) < 20 THEN Len(description) ELSE 20))

\* The transactions get_merchant_groups is asked to group.
GroupConsidered(uncategorized_only) ==
    {i \in 1..Len(transactions) :
        ~uncategorized_only \/ ~Truthy(transactions[i].category_id)}

RECURSIVE SumCounts(_)
SumCounts(groups) ==
    IF groups = <<>> THEN 0
    ELSE Head(groups).transaction_count + SumCounts(Tail(groups))

\* C12: the groups get_merchant_groups returns partition the considered
\* transactions by the trimmed first 20 characters of the description: no
\* two groups have the same key, every considered transaction's key is the
\* key of a group, each group counts the considered transactions with its
\* key (at least one), and the counts add up to the number of considered
\* transactions.
C12_GroupsPartitionByKey ==
    last.op = "get_merchant_groups"
    => LET groups == last.ret
           considered == GroupConsidered(last.args.uncategorized_only)
       IN  /\ \A a, b \in 1..Len(groups) :
                 groups[a].merchant = groups[b].merchant => a = b
           /\ \A i \in considered :
                 Cardinality({k \in 1..Len(groups) :
                     groups[k].merchant = TrimmedPrefix20(transactions[i].description)}) = 1
           /\ \A k \in 1..Len(groups) :
                 /\ groups[k].transaction_count >= 1
                 /\ groups[k].transaction_count =
                        Cardinality({i \in considered :
                            TrimmedPrefix20(transactions[i].description) = groups[k].merchant})
           /\ SumCounts(groups) = Cardinality(considered)

\* C12 witness: of four considered transactions three share their first 20
\* characters and one does not; there are two groups, the common one with
\* count 3.
C12_Witness ==
    /\ last.op = "get_merchant_groups"
    /\ Cardinality(GroupConsidered(last.args.uncategorized_only)) = 4
    /\ Len(last.ret) = 2
    /\ \E k \in 1..2 :
          /\ last.ret[k].transaction_count = 3
          /\ Len(last.ret[k].merchant) = 20

(***************************************************************************)
(* Properties of manual entry.                                             *)
(***************************************************************************)
IsManualEntry(c) ==
    c.op \in {"create_manual_transaction", "render_manual_transaction_entry"}

\* C15: a manual entry of the euro value displayed for c cents (c / 100)
\* stores exactly c cents, for every whole c.
C15_MoneyRoundTrip ==
    (IsManualEntry(last) /\ last.exc.type = "None")
    => \A c \in CentsInputs :
          last.args.amount = EuroDisplay(c) => last.ret.amount_cents = c

\* C16: no transaction persisted through manual entry (one that belongs to
\* no import) has an amount of zero cents.
C16_ManualAmountNeverZero ==
    \A i \in 1..Len(transactions) :
        transactions[i].import_id = NULL => transactions[i].amount_cents # 0

(***************************************************************************)
(* Properties of renaming a category.                                      *)
(***************************************************************************)
IsRename(c) == c.op = "CategoryRepository.update"

\* What a rename of an existing id does when it goes through: the row keeps
\* its id and has the new name, the new name resolves to that id only, the
\* other rows and the number of rows are as before.
RenamedInPlace ==
    /\ last'.exc.type = "None"
    /\ last'.ret.id = last'.args.category_id
    /\ last'.ret.name = last'.args.new_name
    /\ {c.id : c \in CategoryGetByName(categories', last'.args.new_name)}
          = {last'.args.category_id}
    /\ Ids(categories') = Ids(categories)
    /\ Cardinality(categories') = Cardinality(categories)
    /\ \A c \in categories : c.id # last'.args.category_id => c \in categories'

\* What a rename of an id no category has does.
RenameNotFound ==
    /\ last'.exc.type = "ValueError"
    /\ last'.exc.kind = "CategoryIdNotFound"
    /\ categories' = categories

\* C20 as stated: CategoryRepository.update of an existing id renames in
\* place whatever the new name, and of an id no category has raises the
\* 'not found' ValueError and changes no category.
C20_RenameInPlace ==
    [][ IsRename(last')
        => IF last'.args.category_id \in Ids(categories)
           THEN RenamedInPlace
           ELSE RenameNotFound ]_vars

\* C20 as amended: CategoryRepository.update of an existing id renames in
\* place unless another category holds the new name, in which case it
\* raises IntegrityError and changes no category; of an id no category has
\* it raises the 'not found' ValueError and changes no category.
C20_RenameInPlaceUnlessTaken ==
    [][ IsRename(last')
        => IF last'.args.category_id \notin Ids(categories)
           THEN RenameNotFound
           ELSE IF \E c \in categories :
                      c.id # last'.args.category_id /\ c.name = last'.args.new_name
           THEN /\ last'.exc.type = "IntegrityError"
                /\ categories' = categories
           ELSE RenamedInPlace ]_vars

\* C20 witness: in a store of two categories one was renamed to a name no
\* category is created with, and kept its id.
C20_Witness ==
    /\ IsRename(last)
    /\ last.exc.type = "None"
    /\ ~last.repeat
    /\ Cardinality(categories) = 2
    /\ last.args.new_name \notin CategoryNames
    /\ last.ret \in categories
    /\ last.ret.id = last.args.category_id

(***************************************************************************)
(* Properties of the parsers.                                              *)
(***************************************************************************)
\* The characters of a field that are not '.' or ','.
WithoutSeparators(field) == SelectSeq(field, LAMBDA ch : ch \notin {".", ","})

\* A field that holds an amount: digits, with '.' and ',' among them.
IsAmountField(field) == IsDigits(WithoutSeparators(field))

\* A text dd-mm-yyyy that names a day of the calendar.
IsDayMonthYear(text) ==
    /\ Len(text) = 10
    /\ IsDateAt(text, 1)
    /\ DigitsToInt(SubSeq(text, 4, 5)) \in 1..12
    /\ DigitsToInt(SubSeq(text, 7, 10)) >= 1
    /\ DigitsToInt(SubSeq(text, 1, 2)) \in
          1..DaysInMonth(DigitsToInt(SubSeq(text, 4, 5)), DigitsToInt(SubSeq(text, 7, 10)))

DayMonthYear(text) ==
    [year |-> DigitsToInt(SubSeq(text, 7, 10)),
     month |-> DigitsToInt(SubSeq(text, 4, 5)),
     day |-> DigitsToInt(SubSeq(text, 1, 2))]

\* C17: a row with a day-month-year movement date and exactly one of the
\* credit and debit columns populated, with an amount, parses without
\* error: the amount is the digits of the populated field read as cents,
\* as they are for a credit and negated for a debit, created_at is the
\* movement date, and description and category name are the columns'
\* texts as they stand.
C17_OneAmountColumn ==
    LET row == last.args.row
        debit == row[4]
        credit == row[5]
    IN  ( /\ last.op = "parse_transaction"
          /\ IsDayMonthYear(row[1])
          /\ (credit = <<>>) # (debit = <<>>)
          /\ IsAmountField(credit \o debit) )
        => /\ last.exc.type = "None"
           /\ last.ret.txn.amount_cents =
                  IF credit # <<>>
                  THEN DigitsToInt(WithoutSeparators(credit))
                  ELSE 0 - DigitsToInt(WithoutSeparators(debit))
           /\ last.ret.txn.created_at = DayMonthYear(row[1])
           /\ last.ret.txn.description = row[3]
           /\ last.ret.category_name = row[8]

\* The space-separated tokens of a matching line after its second date.
TokensAfterDates(line) == Split(SubSeq(line, 25, Len(line)), <<" ">>)

\* C18: a page of one line that matches the two-date pattern, with at
\* least three tokens after the dates of which the third from the end is
\* an amount, parses to one transaction: its amount is the digits of that
\* token as cents, negated iff the token after it is '-', and its
\* description the tokens before it joined by single spaces.
C18_LastThreeTokens ==
    LET line == last.args.lines[1]
        tokens == TokensAfterDates(line)
        n == Len(tokens)
    IN  ( /\ last.op = "parse_pdf"
          /\ Len(last.args.lines) = 1
          /\ IsTransaction(line)
          /\ IsDayMonthYear(SubSeq(line, 1, 10))
          /\ n >= 3
          /\ IsAmountField(tokens[n - 2]) )
        => /\ last.exc.type = "None"
           /\ Len(last.ret) = 1
           /\ last.ret[1].amount_cents =
                  IF tokens[n - 1] = <<"-">>
                  THEN 0 - DigitsToInt(WithoutSeparators(tokens[n - 2]))
                  ELSE DigitsToInt(WithoutSeparators(tokens[n - 2]))
           /\ last.ret[1].description = Join(SubSeq(tokens, 1, n - 3), <<" ">>)

\* The lines of a statement that match the two-date pattern and of which
\* the loop body of parse_pdf makes a transaction.
ParsableLines(lines) ==
    {k \in 1..Len(lines) :
        IsTransaction(lines[k]) /\ ParseMoeyLine(lines[k]).exc = "None"}

\* C19: a Moey import raises no error whatever its matching lines, and
\* persists one transaction for each matching line that parses; a matching
\* line that does not is passed over.
C19_BadLineIsSkipped ==
    (last.op = "import_moey_transactions" /\ ~IsDuplicateRejection(last))
    => /\ last.exc.type = "None"
       /\ Cardinality(TransactionsOfSha(last.args.sha256))
              = Cardinality(ParsableLines(last.args.lines))

(***************************************************************************)
(* Frame and integrity properties of the categorization operations.        *)
(***************************************************************************)
\* A transaction with its category_id blanked: every other column.
OtherColumns(t) == [t EXCEPT !.category_id = NULL]

\* C21: update_transactions_category, update_merchant_transactions and
\* apply_pattern_rule create and delete no transaction, leave the
\* categories, accounts and imports as they were, and change no column of a
\* transaction other than category_id.
C21_OnlyCategoryIdChanges ==
    [][ IsCategorization(last')
        => /\ UNCHANGED <<accounts, categories, imports>>
           /\ Len(transactions') = Len(transactions)
           /\ \A i \in 1..Len(transactions) :
                 OtherColumns(transactions'[i]) = OtherColumns(transactions[i]) ]_vars

\* C21 witness: update_transactions_category gave a category to an imported
\* transaction, which still points at its import, and left another one
\* uncategorized.
C21_Witness ==
    /\ last.op = "update_transactions_category"
    /\ last.exc.type = "None"
    /\ \E i, j \in 1..Len(transactions), c \in categories :
          /\ c.name = last.args.category_name
          /\ i \in Range(last.args.transaction_ids)
          /\ transactions[i].category_id = c.id
          /\ transactions[i].import_id # NULL
          /\ transactions[j].category_id = NULL

\* C22: in uncategorized-only mode apply_pattern_rule leaves every
\* transaction that has a category exactly as it was, whatever the pattern
\* and the target category, and count_pattern_matches counts only
\* transactions without a category.
C22_UncategorizedOnlyKeepsCategories ==
    [][ /\ (last'.op = "apply_pattern_rule" /\ ~last'.args.apply_to_all)
            => /\ Len(transactions') = Len(transactions)
               /\ \A i \in 1..Len(transactions) :
                     Truthy(transactions[i].category_id)
                         => transactions'[i] = transactions[i]
        /\ (last'.op = "count_pattern_matches" /\ ~last'.args.apply_to_all)
            => last'.ret =
                 Cardinality({i \in 1..Len(transactions) :
                     /\ ~Truthy(transactions[i].category_id)
                     /\ PatternMatches(transactions[i].description,
                                       last'.args.pattern,
                                       last'.args.case_sensitive)}) ]_vars

\* C22 witness: an uncategorized-only rule categorized a transaction while
\* another transaction, whose description holds the pattern too, keeps the
\* different category it had.
C22_Witness ==
    /\ last.op = "apply_pattern_rule"
    /\ last.exc.type = "None"
    /\ ~last.args.apply_to_all
    /\ last.ret = 1
    /\ \E i \in 1..Len(transactions), c \in categories :
          /\ c.name = last.args.category_name
          /\ Truthy(transactions[i].category_id)
          /\ transactions[i].category_id # c.id
          /\ PatternMatches(transactions[i].description, last.args.pattern,
                            last.args.case_sensitive)

\* C24: every transaction's category_id is null or the id of a category
\* that exists.
C24_CategoryIdsResolve ==
    \A i \in 1..Len(transactions) :
        \/ transactions[i].category_id = NULL
        \/ \E c \in categories : c.id = transactions[i].category_id

(***************************************************************************)
(* Properties of a CGD import that meets a row it cannot parse.            *)
(***************************************************************************)
\* C23: a CGD import whose first row that does not parse as a transaction
\* (bad amount, bad date, missing columns, no amount) comes after at least
\* one imported row raises no error and persists exactly the rows before
\* it, whatever follows.
C23_FirstBadRowEndsNormally ==
    LET rows == DataRows(last.args.lines)
        n == LeadingValid(rows)
    IN  ( /\ last.op = "import_cgd_transactions"
          /\ ~IsDuplicateRejection(last)
          /\ n >= 1
          /\ n < Len(rows)
          /\ ~IsAmbiguousRow(rows[n + 1])
          /\ \A k \in 1..n : Column(Header, rows[k], "Categoria ") # Missing )
        => /\ last.exc.type = "None"
           /\ Cardinality(TransactionsOfSha(last.args.sha256)) = n

\* C26: an import of content whose earlier import ended with an error other
\* than the duplicate-import error is not rejected as a duplicate import.
C26_FailedImportCanBeRetried ==
    [][ ( /\ IsImportCall(last)
          /\ last.exc.type # "None"
          /\ ~IsDuplicateRejection(last)
          /\ IsImportCall(last')
          /\ last'.op = last.op
          /\ last'.args.sha256 = last.args.sha256 )
        => ~IsDuplicateRejection(last') ]_vars

(***************************************************************************)
(* The merchant groups against the merchant update.                        *)
(***************************************************************************)
\* C25: update_merchant_transactions called with a key that
\* get_merchant_groups reports (some uncategorized transaction has it)
\* gives the category to every transaction with that key and changes no
\* transaction whose own key differs.
C25_GroupAndApplyAgree ==
    [][ ( /\ last'.op = "update_merchant_transactions"
          /\ last'.exc.type = "None"
          /\ \E i \in 1..Len(transactions) :
                /\ ~Truthy(transactions[i].category_id)
                /\ TrimmedPrefix20(transactions[i].description) = last'.args.merchant )
        => /\ Len(transactions') = Len(transactions)
           /\ \E c \in categories :
                 /\ c.name = last'.args.category_name
                 /\ \A i \in 1..Len(transactions) :
                       IF TrimmedPrefix20(transactions[i].description)
                              = last'.args.merchant
                       THEN transactions'[i].category_id = c.id
                       ELSE transactions'[i] = transactions[i] ]_vars

(***************************************************************************)
(* Properties of category management by name.                              *)
(***************************************************************************)
\* C27: after every create_new_category, update_existing_category and
\* delete_existing_category no two categories share a name; and an
\* update_existing_category to a name another category holds raises an
\* error and leaves the categories as they were.
C27_NamesStayUnique ==
    [][ /\ \A c, d \in categories' : c.name = d.name => c = d
        /\ ( /\ last'.op = "update_existing_category"
             /\ \E c, d \in categories :
                   /\ c.name = last'.args.category_name
                   /\ d.id # c.id
                   /\ d.name = Strip(last'.args.new_name) )
            => /\ last'.exc.type # "None"
               /\ categories' = categories ]_vars

\* C27 witness: with two categories in the store, the rename of one to the
\* name of the other, typed with blanks around it, was refused.
C27_Witness ==
    /\ last.op = "update_existing_category"
    /\ last.exc.type = "ValueError"
    /\ last.args.new_name # Strip(last.args.new_name)
    /\ \E c, d \in categories :
          /\ c.name = last.args.category_name
          /\ d.id # c.id
          /\ d.name = Strip(last.args.new_name)

(***************************************************************************)
(* The pattern operations of the categorization page against those of the  *)
(* service.                                                                *)
(***************************************************************************)
\* C28: the pattern operations of the categorization page select the
\* transactions the service operations of the same names select: the page's
\* count is the service's count, and the page's rule gives the category to
\* exactly the transactions the service's rule would update.
C28_UiSelectsWhatServiceSelects ==
    [][ /\ last'.op = "ui.count_pattern_matches"
            => last'.ret = CountMatches(transactions, last'.args.pattern,
                                        last'.args.case_sensitive,
                                        last'.args.apply_to_all)
        /\ (last'.op = "ui.apply_pattern_rule" /\ last'.exc.type = "None")
            => \E c \in categories :
                  /\ c.name = last'.args.category_name
                  /\ transactions' =
                        SetCategoryOf(transactions,
                                      PatternMatchIds(transactions, last'.args.pattern,
                                                      last'.args.case_sensitive,
                                                      last'.args.apply_to_all),
                                      c.id) ]_vars

(***************************************************************************)
(* Properties of operations that run at the same time.                     *)
(***************************************************************************)
\* The imports in progress or ended that were given this content.
ImportsOf(sha) ==
    {p \in 1..Len(running) :
        running[p].op = "import_cgd_transactions" /\ running[p].args.sha256 = sha}

\* C29: however imports of the same content interleave, no hash is
\* registered in two Import rows, and of the imports given one content at
\* most one has persisted transactions.
C29_OneImportPerHash ==
    /\ \A i, j \in 1..Len(imports) :
          imports[i].sha256 = imports[j].sha256 => i = j
    /\ \A p, q \in 1..Len(running) :
          ( /\ p # q
            /\ q \in ImportsOf(running[p].args.sha256)
            /\ p \in ImportsOf(running[p].args.sha256) )
          => running[p].created = {} \/ running[q].created = {}

\* C29 witness: two imports of the same content, one of which went on to
\* persist its transaction and return; the other, which had looked the
\* hash up before it was registered, ended on the unique constraint.
C29_Witness ==
    \E p, q \in 1..Len(running) :
        /\ p # q
        /\ running[p].op = "import_cgd_transactions"
        /\ running[q].op = "import_cgd_transactions"
        /\ running[p].args.sha256 = running[q].args.sha256
        /\ running[p].pc = "done" /\ running[p].exc.type = "None"
        /\ running[p].created # {}
        /\ running[q].pc = "done"
        /\ running[q].exc.kind = "ImportSha256Unique"
        /\ running[q].created = {}

\* C30: a step of an apply_pattern_rule that runs in uncategorized-only
\* mode leaves every transaction that has a category by then, whichever
\* operation gave it, as it is.
C30_FirstWriterWins ==
    [][ ( \E p \in 1..Len(running) :
             /\ running[p].op = "apply_pattern_rule"
             /\ ~running[p].args.apply_to_all
             /\ running'[p] # running[p] )
        => \A i \in 1..Len(transactions) :
              Truthy(transactions[i].category_id)
                  => transactions'[i] = transactions[i] ]_vars

====
